---- MODULE Spec2Model ----
(***************************************************************************)
(* Command registry (TestCommandManager), command executor                 *)
(* (TestCommandExecutor) and the two workflow chains (TDD, linter) of      *)
(* clean_interfaces.workflow.                                              *)
(*                                                                         *)
(* A Python str is modelled as a sequence of one-character strings, so     *)
(* that tokenisation, quoting and exact comparison are computed character  *)
(* by character.  A command argument vector is a sequence of such strings, *)
(* a command sequence a sequence of vectors.                               *)
(***************************************************************************)
EXTENDS Integers, Sequences, FiniteSets, TLC

VARIABLES
    commands,      \* TestCommandManager._commands: alias -> command sequence
    call,          \* the registry/executor call last made by the client, with its outcome
    pending,       \* run/run_all: the vectors still to execute in the call in progress
    results,       \* run/run_all: the results collected so far by the call in progress
    spawned,       \* every subprocess.run invocation of the executor, in order
    config,        \* the workflow configuration (TDDWorkflowConfig / LinterWorkflowConfig)
    wfStatus,      \* "new" | "running" | "done" | "aborted"
    wfError,       \* the exception that ended the chain, "none" if none
    pc,            \* index of the step the chain is at
    inflight,      \* the step function that is blocked in an external call
    started,       \* names of the steps started, in order
    finished,      \* names of the steps that returned, in order
    outputs,       \* recorded content of the finished steps, in order
    test_results,  \* _TDDStepFactory.test_results / _LinterStepFactory.results
    runner_calls,  \* the calls of the agent-runner callables, in order, with their prompts
    executor,      \* TestCommandExecutor: _cwd, _env and the arguments it was made with
    caller_env,    \* the mapping object the caller handed to the executor as env
    settings,      \* AgentSettings.instance, as get_agent_settings returns it
    facade,        \* the facade operation (core.py) in progress, with its outcome
    agents,        \* the agents constructed, in order, each with what its run did
    config_file,   \* config.toml of the MCP server store
    store_call     \* the store operation last made, with its outcome

regVars == <<commands, call, pending, results, spawned>>
wfVars == <<config, wfStatus, wfError, pc, inflight, started, finished, outputs,
            test_results, runner_calls>>
execVars == <<executor, caller_env>>
facadeVars == <<settings, facade, agents>>
storeVars == <<config_file, store_call>>
vars == <<commands, call, pending, results, spawned, config, wfStatus, wfError, pc,
          inflight, started, finished, outputs, test_results, runner_calls,
          executor, caller_env, settings, facade, agents, config_file, store_call>>

(***************************************************************************)
(* Bounds of the model.                                                    *)
(***************************************************************************)
MaxSpecLen == 3   \* longest specification string handed to resolve/resolve_all
MaxListLen == 2   \* longest flat list of strings handed to register

(***************************************************************************)
(* Strings.                                                                *)
(***************************************************************************)
SpecChars == {"a", "A", " ", "'", "\""}

StringsUpTo(chars, n) == UNION {[1..k -> chars] : k \in 0..n}

\* letter case folded
Fold(s) == [i \in 1..Len(s) |-> IF s[i] = "A" THEN "a" ELSE s[i]]

pytest == <<"p", "y", "t", "e", "s", "t">>
uv == <<"u", "v">>
run_word == <<"r", "u", "n">>

\* shlex: whitespace, quotes, escape and escapedquotes of a POSIX lexer
ShlexWhitespace == {" ", "\t", "\r", "\n"}
ShlexQuotes == {"'", "\""}
ShlexEscape == {"\\"}
ShlexEscapedQuotes == {"\""}

(***************************************************************************)
(* shlex.split(s): the POSIX-mode lexer with whitespace_split, comments    *)
(* off.  st is the lexer state: "ws" (' '), "word" ('a'), a quote          *)
(* character, or "esc" (an escape character, est the state to return to).  *)
(* Returns [ok, tokens]; ok = FALSE is ValueError (no closing quotation,   *)
(* no escaped character).                                                  *)
(***************************************************************************)
RECURSIVE ShlexScan(_, _, _, _, _, _, _)
ShlexScan(s, i, st, est, tok, quoted, out) ==
    IF i > Len(s)
    THEN CASE st = "ws" -> [ok |-> TRUE, tokens |-> out]
           [] st = "word" -> [ok |-> TRUE,
                              tokens |-> IF tok # <<>> \/ quoted
                                         THEN Append(out, tok) ELSE out]
           [] OTHER -> [ok |-> FALSE, tokens |-> <<>>]
    ELSE LET c == s[i] IN
         CASE st = "ws" ->
                IF c \in ShlexWhitespace
                THEN ShlexScan(s, i + 1, "ws", est, <<>>, FALSE, out)
                ELSE IF c \in ShlexEscape
                THEN ShlexScan(s, i + 1, "esc", "word", <<>>, FALSE, out)
                ELSE IF c \in ShlexQuotes
                THEN ShlexScan(s, i + 1, c, est, <<>>, FALSE, out)
                ELSE ShlexScan(s, i + 1, "word", est, <<c>>, FALSE, out)
           [] st \in ShlexQuotes ->
                IF c = st
                THEN ShlexScan(s, i + 1, "word", est, tok, TRUE, out)
                ELSE IF c \in ShlexEscape /\ st \in ShlexEscapedQuotes
                THEN ShlexScan(s, i + 1, "esc", st, tok, TRUE, out)
                ELSE ShlexScan(s, i + 1, st, est, Append(tok, c), TRUE, out)
           [] st = "esc" ->
                LET kept == IF est \in ShlexQuotes /\ c \notin ShlexEscape /\ c # est
                            THEN tok \o <<"\\", c>>
                            ELSE Append(tok, c)
                IN ShlexScan(s, i + 1, est, est, kept, quoted, out)
           [] OTHER ->  \* st = "word"
                IF c \in ShlexWhitespace
                THEN IF tok # <<>> \/ quoted
                     THEN ShlexScan(s, i + 1, "ws", est, <<>>, FALSE, Append(out, tok))
                     ELSE ShlexScan(s, i + 1, "ws", est, <<>>, FALSE, out)
                ELSE IF c \in ShlexQuotes
                THEN ShlexScan(s, i + 1, c, est, tok, quoted, out)
                ELSE IF c \in ShlexEscape
                THEN ShlexScan(s, i + 1, "esc", "word", tok, quoted, out)
                ELSE ShlexScan(s, i + 1, "word", est, Append(tok, c), quoted, out)

ShlexSplit(s) == ShlexScan(s, 1, "ws", "word", <<>>, FALSE, <<>>)

(***************************************************************************)
(* Command inputs (CommandInput = str | Iterable[str] |                    *)
(* Iterable[Iterable[str]]).  An input is a string or a list of elements;  *)
(* an element is a string, a nested sequence of strings, a nested sequence *)
(* of arbitrary objects, or a value that is not iterable.                  *)
(***************************************************************************)
StrInput(s) == [kind |-> "str", str |-> s, items |-> <<>>]
ListInput(items) == [kind |-> "list", str |-> <<>>, items |-> items]
NoInput == [kind |-> "none", str |-> <<>>, items |-> <<>>]
StrElem(s) == [kind |-> "str", str |-> s, parts |-> <<>>]
SeqElem(parts) == [kind |-> "seq", str |-> <<>>, parts |-> parts]
NumElem == [kind |-> "num", str |-> <<>>, parts |-> <<>>]
\* the objects a nested sequence may hold: a str, or an int between 0 and 9
StrObj(s) == [kind |-> "str", int |-> 0, str |-> s]
IntObj(n) == [kind |-> "int", int |-> n, str |-> <<>>]
ObjSeqElem(objs) == [kind |-> "objs", str |-> <<>>, parts |-> objs]
\* str(part): a str is itself, an int its decimal digit
PyStr(obj) == IF obj.kind = "str" THEN obj.str ELSE <<ToString(obj.int)>>

\* the outcome of an operation that returns val or raises err
Ok(v) == [ok |-> TRUE, err |-> "none", val |-> v]
Raise(e) == [ok |-> FALSE, err |-> e, val |-> <<>>]

\* the exceptions, by type and message
EmptyCommand == "ValueError: Command must contain at least one element"
EmptySpec == "ValueError: Command specification cannot be empty"
ShlexError == "ValueError: shlex"
UnsupportedType == "TypeError: Unsupported command element type"
CommandExecutionError == "TestCommandExecutionError"

\* shlex.split as an operation that may raise
SplitOf(s) ==
    LET sp == ShlexSplit(s) IN IF sp.ok THEN Ok(sp.tokens) ELSE Raise(ShlexError)

\* variant: any tuple of parts is accepted, also the empty one
ensure_parts_Lenient(parts) == Ok(parts)

\* TestCommandManager._ensure_parts
ensure_parts(parts) ==
    IF parts = <<>> THEN Raise(EmptyCommand) ELSE Ok(parts)

\* TestCommandManager._normalise_from_string
normalise_from_string(s) ==
    LET sp == SplitOf(s) IN
    IF ~sp.ok THEN sp
    ELSE LET v == ensure_parts(sp.val) IN IF v.ok THEN Ok(<<v.val>>) ELSE v

\* variant: a string element is taken as one token, it is not split
normalise_nested_element_NoSplit(element) ==
    IF element.kind = "str"
    THEN ensure_parts(IF element.str = <<>> THEN <<>> ELSE <<element.str>>)
    ELSE IF element.kind = "num"
    THEN Raise(UnsupportedType)
    ELSE IF element.kind = "objs"
    THEN ensure_parts([i \in 1..Len(element.parts) |-> PyStr(element.parts[i])])
    ELSE ensure_parts(element.parts)

\* variant: the first two parts of a nested sequence are joined and shell-split
\* again
normalise_nested_element_Resplit(element) ==
    IF element.kind = "str"
    THEN LET sp == SplitOf(element.str) IN IF sp.ok THEN ensure_parts(sp.val) ELSE sp
    ELSE IF element.kind = "num"
    THEN Raise(UnsupportedType)
    ELSE LET parts == IF element.kind = "objs"
                      THEN [i \in 1..Len(element.parts) |-> PyStr(element.parts[i])]
                      ELSE element.parts
             joined == IF parts = <<>> THEN <<>>
                       ELSE parts[1] \o (IF Len(parts) > 1 THEN <<" ">> \o parts[2] ELSE <<>>)
             sp == SplitOf(joined)
         IN IF sp.ok THEN ensure_parts(sp.val) ELSE sp

\* TestCommandManager._normalise_nested_element: a string is shell-split; any
\* other element is iterated, which raises TypeError for a value that is not
\* iterable, and each of its parts is converted with str
normalise_nested_element(element) ==
    IF element.kind = "str"
    THEN LET sp == SplitOf(element.str) IN IF sp.ok THEN ensure_parts(sp.val) ELSE sp
    ELSE IF element.kind = "num"
    THEN Raise(UnsupportedType)
    ELSE IF element.kind = "objs"
    THEN ensure_parts([i \in 1..Len(element.parts) |-> PyStr(element.parts[i])])
    ELSE ensure_parts(element.parts)

\* the list comprehension of _normalise_from_iterable: the first element that
\* raises ends it
RECURSIVE NormaliseEach(_, _, _)
NormaliseEach(elements, i, acc) ==
    IF i > Len(elements) THEN Ok(acc)
    ELSE LET v == normalise_nested_element(elements[i]) IN
         IF v.ok THEN NormaliseEach(elements, i + 1, Append(acc, v.val)) ELSE v

\* variant: every element is normalised on its own, also in a flat list of strings
normalise_from_iterable_PerElement(elements) ==
    IF elements = <<>> THEN Raise(EmptyCommand)
    ELSE NormaliseEach(elements, 1, <<>>)

\* TestCommandManager._normalise_from_iterable
normalise_from_iterable(elements) ==
    IF elements = <<>> THEN Raise(EmptyCommand)
    ELSE IF \A i \in 1..Len(elements) : elements[i].kind = "str"
    THEN LET v == ensure_parts([i \in 1..Len(elements) |-> elements[i].str])
         IN IF v.ok THEN Ok(<<v.val>>) ELSE v
    ELSE NormaliseEach(elements, 1, <<>>)

\* TestCommandManager.normalise
normalise(command) ==
    IF command.kind = "str"
    THEN normalise_from_string(command.str)
    ELSE normalise_from_iterable(command.items)

(***************************************************************************)
(* The registry operations, as functions of the alias table.               *)
(***************************************************************************)
\* TestCommandManager.register: the new table, or the exception
register(cmds, name, command) ==
    LET n == normalise(command) IN
    IF n.ok THEN Ok((name :> n.val) @@ cmds) ELSE n

\* variant: the name is unbound before the command is normalised
register_commands_UnbindFirst(cmds, name, command) ==
    LET n == normalise(command) IN
    IF n.ok THEN (name :> n.val) @@ cmds
    ELSE [k \in DOMAIN cmds \ {name} |-> cmds[k]]

\* TestCommandManager.register: the alias table after the call; the table is
\* assigned to only after normalise has returned
register_commands(cmds, name, command) ==
    LET n == normalise(command) IN
    IF n.ok THEN (name :> n.val) @@ cmds ELSE cmds

\* what a loop of register calls ends with: val is the alias table it leaves
Done(cmds) == [ok |-> TRUE, err |-> "none", val |-> cmds]
Failed(err, cmds) == [ok |-> FALSE, err |-> err, val |-> cmds]

\* an entry of a mapping of alias names to command inputs; a mapping is the
\* sequence of its entries in iteration order, with distinct names
Entry(name, command) == [name |-> name, command |-> command]

\* the loop of register_many from entry i on: the first register that raises
\* ends it
RECURSIVE RegisterEach(_, _, _)
RegisterEach(cmds, entries, i) ==
    IF i > Len(entries) THEN Done(cmds)
    ELSE LET r == register(cmds, entries[i].name, entries[i].command) IN
         IF r.ok THEN RegisterEach(r.val, entries, i + 1)
         ELSE Failed(r.err, register_commands(cmds, entries[i].name, entries[i].command))

\* variant: every entry is validated before the first one is stored
register_many_Atomic(cmds, entries) ==
    IF \E i \in 1..Len(entries) : ~normalise(entries[i].command).ok
    THEN Failed(normalise(entries[CHOOSE i \in 1..Len(entries) :
                                   /\ ~normalise(entries[i].command).ok
                                   /\ \A j \in 1..(i - 1) : normalise(entries[j].command).ok
                                 ].command).err, cmds)
    ELSE RegisterEach(cmds, entries, 1)

\* TestCommandManager.register_many: the table it leaves, and the exception if any
register_many(cmds, entries) == RegisterEach(cmds, entries, 1)

\* str.split(): the words between runs of whitespace, quotes not honoured
RECURSIVE WhitespaceSplit(_, _, _, _)
WhitespaceSplit(s, i, tok, out) ==
    IF i > Len(s) THEN (IF tok = <<>> THEN out ELSE Append(out, tok))
    ELSE IF s[i] \in ShlexWhitespace
    THEN WhitespaceSplit(s, i + 1, <<>>, IF tok = <<>> THEN out ELSE Append(out, tok))
    ELSE WhitespaceSplit(s, i + 1, Append(tok, s[i]), out)

\* variant: the literal spec is split on whitespace only
resolve_all_PlainSplit(cmds, spec) ==
    IF spec = <<>> THEN Raise(EmptySpec)
    ELSE IF spec \in DOMAIN cmds THEN Ok(cmds[spec])
    ELSE LET parsed == WhitespaceSplit(spec, 1, <<>>, <<>>) IN
         IF parsed = <<>> THEN Raise(EmptySpec) ELSE Ok(<<parsed>>)

\* variant: the alias is looked up without regard to letter case
resolve_all_IgnoreCase(cmds, spec) ==
    IF spec = <<>> THEN Raise(EmptySpec)
    ELSE IF \E alias \in DOMAIN cmds : Fold(alias) = Fold(spec)
    THEN Ok(cmds[CHOOSE alias \in DOMAIN cmds : Fold(alias) = Fold(spec)])
    ELSE LET parsed == SplitOf(spec) IN
         IF ~parsed.ok THEN parsed
         ELSE IF parsed.val = <<>> THEN Raise(EmptySpec)
         ELSE Ok(<<parsed.val>>)

\* variant: the alias table is consulted before the spec is tested for emptiness
resolve_all_LookupFirst(cmds, spec) ==
    IF spec \in DOMAIN cmds THEN Ok(cmds[spec])
    ELSE IF spec = <<>> THEN Raise(EmptySpec)
    ELSE LET parsed == SplitOf(spec) IN
         IF ~parsed.ok THEN parsed
         ELSE IF parsed.val = <<>> THEN Raise(EmptySpec)
         ELSE Ok(<<parsed.val>>)

\* TestCommandManager.resolve_all
resolve_all(cmds, spec) ==
    IF spec = <<>> THEN Raise(EmptySpec)
    ELSE IF spec \in DOMAIN cmds THEN Ok(cmds[spec])
    ELSE LET parsed == SplitOf(spec) IN
         IF ~parsed.ok THEN parsed
         ELSE IF parsed.val = <<>> THEN Raise(EmptySpec)
         ELSE Ok(<<parsed.val>>)

\* variant: the literal spec that was parsed is remembered as an alias
resolve_all_commands_Cached(cmds, spec) ==
    LET r == resolve_all(cmds, spec) IN
    IF r.ok /\ spec \notin DOMAIN cmds THEN (spec :> r.val) @@ cmds ELSE cmds

\* TestCommandManager.resolve_all: the alias table after the call (the method
\* assigns to nothing)
resolve_all_commands(cmds, spec) == cmds

\* variant: the last vector of the sequence is returned
resolve_Last(cmds, spec) ==
    LET all == resolve_all(cmds, spec) IN
    IF all.ok THEN Ok(all.val[Len(all.val)]) ELSE all

\* TestCommandManager.resolve
resolve(cmds, spec) ==
    LET all == resolve_all(cmds, spec) IN
    IF all.ok THEN Ok(all.val[1]) ELSE all

\* TestCommandManager.__init__ (commands = None)
NewManager(include_defaults) ==
    IF include_defaults
    THEN register(<<>>, pytest, ListInput(<<StrElem(uv), StrElem(run_word), StrElem(pytest)>>)).val
    ELSE <<>>

\* TestCommandManager.__init__ with commands: the default, then the caller's
\* commands (an empty mapping is skipped)
NewManagerWith(entries, include_defaults) ==
    IF entries # <<>>
    THEN register_many(NewManager(include_defaults), entries)
    ELSE Done(NewManager(include_defaults))

\* a command sequence in canonical form, handed over as a command input: a
\* tuple whose elements are tuples of strings
AsInput(sequence) == ListInput([i \in 1..Len(sequence) |-> SeqElem(sequence[i])])

\* WorkflowCommandConfig: for either category the mapping of alias names to
\* command sequences
CommandConfig(tests, lint) == [tests |-> tests, lint |-> lint]

\* WorkflowCommandConfig.commands_for, as the mapping register_many receives
commands_for(cfg, category) ==
    LET section == IF category = "tests" THEN cfg.tests ELSE cfg.lint IN
    [i \in 1..Len(section) |-> Entry(section[i].name, AsInput(section[i].command))]

\* variant: the default is included whatever the category is
create_manager_from_config_AlwaysDefault(cfg, category, include_defaults) ==
    LET include == IF include_defaults # "None" THEN include_defaults = "True" ELSE TRUE
        manager == NewManager(include)
        entries == commands_for(cfg, category)
    IN IF entries # <<>> THEN register_many(manager, entries) ELSE Done(manager)

\* create_manager_from_config; include_defaults is "None", "True" or "False"
create_manager_from_config(cfg, category, include_defaults) ==
    LET include == IF include_defaults # "None" THEN include_defaults = "True"
                   ELSE category = "tests"
        manager == NewManager(include)
        entries == commands_for(cfg, category)
    IN IF entries # <<>> THEN register_many(manager, entries) ELSE Done(manager)

(***************************************************************************)
(* The executor.  A process either exits with a code, or cannot be         *)
(* started (OSError), or runs into the timeout (TimeoutExpired, only when  *)
(* a timeout was given).                                                   *)
(***************************************************************************)
ExitCodes == {0, 1, 2}
Exit(code) == [kind |-> "exit", code |-> code]
SpawnFailure == [kind |-> "oserror", code |-> 0]
TimedOut == [kind |-> "timeout", code |-> 0]
ProcessOutcomes(timeout) ==
    {Exit(c) : c \in ExitCodes} \cup {SpawnFailure} \cup (IF timeout THEN {TimedOut} ELSE {})

\* TestCommandResult (stdout, stderr and duration are not modelled)
CommandResult(command, returncode) == [command |-> command, returncode |-> returncode]
\* TestCommandResult.succeeded
succeeded(result) == result.returncode = 0

ExecOk(result) == [ok |-> TRUE, err |-> "none", command |-> <<>>, val |-> <<result>>]
ExecRaise(command) ==
    [ok |-> FALSE, err |-> CommandExecutionError, command |-> command, val |-> <<>>]

\* a path, or None
NoPath == "None"
\* a mapping of environment names to values (a set of <<name, value>> pairs
\* with one value per name), or None
NoEnv == [given |-> FALSE, items |-> {}]
EnvOf(items) == [given |-> TRUE, items |-> items]

\* TestCommandExecutor.__init__: _cwd is the path handed over; _env is the
\* object handed over, not a copy of it ("caller_env": the caller's mapping
\* object); passed keeps the arguments as they were at the call
NewExecutor(cwd, env) ==
    [cwd |-> cwd, env |-> IF env.given THEN "caller_env" ELSE "none",
     passed |-> [cwd |-> cwd, env |-> env]]

\* TestCommandExecutor._execute: the env argument of subprocess.run, which is
\* what self._env refers to at the time of the run (mapping: the caller's
\* mapping object as it is then)
subprocess_env(ex, mapping) == IF ex.env = "caller_env" THEN mapping ELSE NoEnv

\* variant: subprocess.run(check=True): a non-zero exit raises
execute_Check(command, outcome) ==
    IF outcome.kind = "exit" /\ outcome.code = 0
    THEN ExecOk(CommandResult(command, outcome.code))
    ELSE ExecRaise(command)

\* TestCommandExecutor._execute, given what the process did
execute(command, outcome) ==
    IF outcome.kind = "exit"
    THEN ExecOk(CommandResult(command, outcome.code))
    ELSE ExecRaise(command)

\* variant: the loop stops at the first result that did not succeed
run_all_step_ShortCircuit(pend, res, ex) ==
    IF ~ex.ok
    THEN [status |-> "raised", pending |-> <<>>, results |-> <<>>,
          err |-> ex.err, command |-> ex.command]
    ELSE [status |-> IF Len(pend) = 1 \/ ~succeeded(ex.val[1])
                     THEN "returned" ELSE "running",
          pending |-> IF succeeded(ex.val[1]) THEN Tail(pend) ELSE <<>>,
          results |-> res \o ex.val,
          err |-> "none", command |-> <<>>]

\* variant: a vector that cannot be executed is skipped and the loop goes on
run_all_step_SkipFailed(pend, res, ex) ==
    [status |-> IF Len(pend) = 1 THEN "returned" ELSE "running",
     pending |-> Tail(pend), results |-> res \o ex.val,
     err |-> "none", command |-> <<>>]

\* one turn of run_all's loop (and the single _execute of run): ex is what
\* _execute did for Head(pend); an exception leaves the call, a result is
\* collected and the loop goes on to the next vector
run_all_step(pend, res, ex) ==
    IF ~ex.ok
    THEN [status |-> "raised", pending |-> <<>>, results |-> <<>>,
          err |-> ex.err, command |-> ex.command]
    ELSE [status |-> IF Len(pend) = 1 THEN "returned" ELSE "running",
          pending |-> Tail(pend), results |-> res \o ex.val,
          err |-> "none", command |-> <<>>]

(***************************************************************************)
(* A client of one manager and one executor: it makes a call, sees its     *)
(* outcome, and makes the next one.                                        *)
(***************************************************************************)
AliasNames == {<<"a">>, <<>>}
ListTokens == {<<"a">>, <<"A", " ", "a">>}
FlatLists == UNION {[1..k -> {StrElem(t) : t \in ListTokens}] : k \in 1..MaxListLen}
RegisterInputs ==
    {ListInput(l) : l \in FlatLists}
    \cup {StrInput(<<"a", " ", "A">>), StrInput(<<>>), StrInput(<<"'">>),
          ListInput(<<>>),
          ListInput(<<SeqElem(<<<<"a">>>>), StrElem(<<"A", " ", "a">>)>>),
          ListInput(<<SeqElem(<<<<"a">>>>), SeqElem(<<>>)>>),
          ListInput(<<StrElem(<<"a">>), NumElem>>),
          ListInput(<<ObjSeqElem(<<StrObj(<<"a">>), IntObj(1)>>)>>),
          ListInput(<<ObjSeqElem(<<StrObj(<<"A", " ", "a">>)>>), StrElem(<<" ">>)>>),
          StrInput(<<" ">>)}
\* the register calls of the client: every input under the name 'a', and a
\* few under the empty name
RegisterCalls ==
    {<<(<<"a">>), command>> : command \in RegisterInputs}
    \cup {<<(<<>>), command>> :
             command \in {ListInput(<<StrElem(<<"a">>)>>),
                          ListInput(<<StrElem(<<"A", " ", "a">>), StrElem(<<"a">>)>>),
                          ListInput(<<>>)}}
\* the mappings handed to register_many: in iteration order, with distinct names
GoodInput == ListInput(<<StrElem(<<"a">>)>>)
ManyInputs ==
    {<<>>,
     <<Entry(<<"a">>, ListInput(<<>>))>>,
     <<Entry(<<"a">>, StrInput(<<"A", " ", "a">>)), Entry(pytest, GoodInput),
       Entry(<<>>, GoodInput)>>,
     <<Entry(pytest, GoodInput), Entry(<<"a">>, ListInput(<<>>)), Entry(<<>>, GoodInput)>>,
     <<Entry(<<"a">>, StrInput(<<"A", " ", "a">>)),
       Entry(<<>>, ListInput(<<StrElem(<<"a">>), NumElem>>)), Entry(pytest, GoodInput)>>,
     <<Entry(<<>>, GoodInput), Entry(<<"a">>, GoodInput), Entry(pytest, StrInput(<<"'">>))>>}
Specs == StringsUpTo(SpecChars, MaxSpecLen)
RunSpecs == AliasNames \cup {<<"a", " ", "A">>, <<>>, <<" ">>, <<"'">>}

\* the outcome of the resolve_all call that came just before, if it was made
\* with the same spec
NoPrev == [spec |-> <<>>, status |-> "idle", err |-> "none", val |-> <<>>]

NoCall == [op |-> "none", name |-> <<>>, input |-> NoInput, entries |-> <<>>,
           spec |-> <<>>, timeout |-> FALSE, status |-> "idle", err |-> "none",
           command |-> <<>>, val |-> <<>>, prev |-> NoPrev]

Idle == call.op = "none"

\* no facade operation, no settings read, no store operation
NoSettings == [provider |-> "openai", openai_api_key |-> "None", azure_openai_api_key |-> "None"]
NoFacade == [op |-> "none", status |-> "idle", err |-> "none", val |-> <<>>]

\* a TOML number (integer or float), and None where a number may be absent
Number(kind, value) == [kind |-> kind, value |-> value]
NoNumber == [kind |-> "none", value |-> 0]
\* McpServerEntry
ServerEntry(command, args, env, startup_timeout_sec, tool_timeout_sec, extras) ==
    [command |-> command, args |-> args, env |-> env,
     startup_timeout_sec |-> startup_timeout_sec,
     tool_timeout_sec |-> tool_timeout_sec, extras |-> extras]
NoEntry == ServerEntry("", <<>>, NoEnv, NoNumber, NoNumber, {})
\* no server table
NoServers == [name \in {} |-> NoEntry]
\* config.toml does not exist
NoFile == [exists |-> FALSE, has_section |-> FALSE, mcp_servers |-> NoServers]
NoStoreCall ==
    [op |-> "none", name |-> "", entry |-> NoEntry, removed |-> FALSE,
     servers |-> NoServers]

\* TestCommandExecutor(manager): no working directory and no environment
PlainExecutor ==
    /\ executor = NewExecutor(NoPath, NoEnv)
    /\ caller_env = NoEnv
IdleFacade ==
    /\ settings = NoSettings
    /\ facade = NoFacade
    /\ agents = <<>>
IdleStore ==
    /\ config_file = NoFile
    /\ store_call = NoStoreCall

NoConfig ==
    [kind |-> "none", exploration_prompt |-> <<>>, test_prompt |-> <<>>,
     implementation_prompt |-> <<>>, test_command |-> <<>>, linter_command |-> <<>>,
     targets |-> <<>>, fix_instructions |-> <<>>]

IdleWorkflow ==
    /\ config = NoConfig
    /\ wfStatus = "new"
    /\ wfError = "none"
    /\ pc = 1
    /\ inflight = "none"
    /\ started = <<>>
    /\ finished = <<>>
    /\ outputs = <<>>
    /\ test_results = <<>>
    /\ runner_calls = <<>>

Init ==
    /\ commands = NewManager(TRUE)
    /\ call = NoCall
    /\ pending = <<>>
    /\ results = <<>>
    /\ spawned = <<>>
    /\ IdleWorkflow
    /\ PlainExecutor
    /\ IdleFacade
    /\ IdleStore

\* manager.register(name, command)
Register(name, command) ==
    /\ Idle
    /\ LET r == register(commands, name, command) IN
       /\ commands' = register_commands(commands, name, command)
       /\ call' = [NoCall EXCEPT !.op = "register", !.name = name, !.input = command,
                                 !.status = IF r.ok THEN "returned" ELSE "raised",
                                 !.err = r.err]
    /\ UNCHANGED <<pending, results, spawned>>
    /\ UNCHANGED wfVars
    /\ UNCHANGED <<execVars, facadeVars, storeVars>>

\* manager.register_many(entries)
RegisterMany(entries) ==
    /\ Idle
    /\ LET r == register_many(commands, entries) IN
       /\ commands' = r.val
       /\ call' = [NoCall EXCEPT !.op = "register_many", !.entries = entries,
                                 !.status = IF r.ok THEN "returned" ELSE "raised",
                                 !.err = r.err]
    /\ UNCHANGED <<pending, results, spawned>>
    /\ UNCHANGED wfVars
    /\ UNCHANGED <<execVars, facadeVars, storeVars>>

\* manager.resolve(spec)
Resolve(spec) ==
    /\ Idle
    /\ LET r == resolve(commands, spec) IN
       call' = [NoCall EXCEPT !.op = "resolve", !.spec = spec,
                              !.status = IF r.ok THEN "returned" ELSE "raised",
                              !.err = r.err, !.val = r.val]
    /\ commands' = resolve_all_commands(commands, spec)
    /\ UNCHANGED <<pending, results, spawned>>
    /\ UNCHANGED wfVars
    /\ UNCHANGED <<execVars, facadeVars, storeVars>>

\* resolve_all(spec) has just ended and no other call was made since
JustResolved(spec) ==
    /\ call.op = "resolve_all"
    /\ call.status \in {"returned", "raised"}
    /\ call.spec = spec

\* manager.resolve_all(spec); a client that repeats the call it has just made
\* keeps the outcome of the earlier call next to that of the new one
ResolveAll(spec) ==
    /\ Idle \/ JustResolved(spec)
    /\ LET r == resolve_all(commands, spec) IN
       call' = [NoCall EXCEPT !.op = "resolve_all", !.spec = spec,
                              !.status = IF r.ok THEN "returned" ELSE "raised",
                              !.err = r.err, !.val = r.val,
                              !.prev = IF JustResolved(spec)
                                       THEN [spec |-> call.spec, status |-> call.status,
                                             err |-> call.err, val |-> call.val]
                                       ELSE NoPrev]
    /\ commands' = resolve_all_commands(commands, spec)
    /\ UNCHANGED <<pending, results, spawned>>
    /\ UNCHANGED wfVars
    /\ UNCHANGED <<execVars, facadeVars, storeVars>>

\* executor.run(spec, timeout=...), up to the start of the process
Run(spec, timeout) ==
    /\ Idle
    /\ LET r == resolve(commands, spec) IN
       /\ call' = [NoCall EXCEPT !.op = "run", !.spec = spec, !.timeout = timeout,
                                 !.status = IF r.ok THEN "running" ELSE "raised",
                                 !.err = r.err]
       /\ pending' = IF r.ok THEN <<r.val>> ELSE <<>>
    /\ commands' = resolve_all_commands(commands, spec)
    /\ UNCHANGED <<results, spawned>>
    /\ UNCHANGED wfVars
    /\ UNCHANGED <<execVars, facadeVars, storeVars>>

\* executor.run_all(spec, timeout=...), up to the start of the first process
RunAll(spec, timeout) ==
    /\ Idle
    /\ LET r == resolve_all(commands, spec) IN
       /\ call' = [NoCall EXCEPT !.op = "run_all", !.spec = spec, !.timeout = timeout,
                                 !.status = IF r.ok THEN "running" ELSE "raised",
                                 !.err = r.err]
       /\ pending' = IF r.ok THEN r.val ELSE <<>>
    /\ commands' = resolve_all_commands(commands, spec)
    /\ UNCHANGED <<results, spawned>>
    /\ UNCHANGED wfVars
    /\ UNCHANGED <<execVars, facadeVars, storeVars>>

\* _execute of the next vector of the call in progress: the process is started
\* and ends with outcome; run returns its result, run_all goes on or returns
Execute(outcome) ==
    /\ call.status = "running"
    /\ pending # <<>>
    /\ LET command == Head(pending)
           step == run_all_step(pending, results, execute(command, outcome))
       IN /\ spawned' = Append(spawned, [command |-> command, outcome |-> outcome,
                                         cwd |-> executor.cwd,
                                         env |-> subprocess_env(executor, caller_env)])
          /\ pending' = step.pending
          /\ results' = step.results
          /\ call' = [call EXCEPT !.status = step.status, !.err = step.err,
                                  !.command = step.command,
                                  !.val = IF step.status = "returned"
                                          THEN step.results ELSE <<>>]
    /\ UNCHANGED commands
    /\ UNCHANGED wfVars
    /\ UNCHANGED <<execVars, facadeVars, storeVars>>

\* the client has seen the outcome of its call
Return ==
    /\ call.status \in {"returned", "raised"}
    /\ call' = NoCall
    /\ pending' = <<>>
    /\ results' = <<>>
    /\ spawned' = <<>>
    /\ UNCHANGED commands
    /\ UNCHANGED wfVars
    /\ UNCHANGED <<execVars, facadeVars, storeVars>>

Next ==
    \/ \E c \in RegisterCalls : Register(c[1], c[2])
    \/ \E entries \in ManyInputs : RegisterMany(entries)
    \/ \E spec \in Specs : Resolve(spec)
    \/ \E spec \in Specs : ResolveAll(spec)
    \/ \E spec \in RunSpecs, timeout \in BOOLEAN : Run(spec, timeout)
    \/ \E spec \in RunSpecs, timeout \in BOOLEAN : RunAll(spec, timeout)
    \/ \E outcome \in ProcessOutcomes(call.timeout) : Execute(outcome)
    \/ Return

Spec == Init /\ [][Next]_vars

(***************************************************************************)
(* Managers as they are built: by TestCommandManager(commands=...,         *)
(* include_defaults=...) or by create_manager_from_config(config,          *)
(* category=..., include_defaults=...).  config holds the arguments of the *)
(* construction, commands the table of the manager it made; the client     *)
(* then resolves specs on that manager.                                    *)
(***************************************************************************)
\* TestCommandManager(commands=entries, include_defaults=...)
ConstructorSetup(entries, include_defaults) ==
    [kind |-> "constructor", tests |-> <<>>, lint |-> <<>>, category |-> "none",
     include_defaults |-> include_defaults, entries |-> entries]
\* create_manager_from_config(WorkflowCommandConfig(tests, lint), category=..., include_defaults=...)
FactorySetup(tests, lint, category, include_defaults) ==
    [kind |-> "factory", tests |-> tests, lint |-> lint, category |-> category,
     include_defaults |-> include_defaults, entries |-> <<>>]

\* the manager the construction makes, or the exception it raises
Build(setup) ==
    IF setup.kind = "constructor"
    THEN NewManagerWith(setup.entries, setup.include_defaults # "False")
    ELSE create_manager_from_config(CommandConfig(setup.tests, setup.lint),
                                    setup.category, setup.include_defaults)

\* sections of a WorkflowCommandConfig: alias names with command sequences in
\* canonical form
TestSections ==
    {<<>>,
     <<Entry(<<"a">>, <<<<(<<"a">>)>>>>)>>,
     <<Entry(pytest, <<<<(<<"a">>)>>>>)>>,
     <<Entry(<<>>, <<<<(<<"a">>)>>>>),
       Entry(<<"a">>, <<<<(<<"a">>)>>, <<(<<"A", " ", "a">>)>>>>)>>}
LintSections ==
    {<<>>,
     <<Entry(<<"a">>, <<<<(<<"A", " ", "a">>), (<<"a">>)>>, <<(<<"a">>)>>>>)>>,
     <<Entry(<<"A">>, <<<<(<<"a">>)>>>>), Entry(pytest, <<<<(<<"A">>)>>, <<(<<"a">>)>>>>)>>}
Setups ==
    {FactorySetup(t, l, c, i) : t \in TestSections, l \in LintSections,
                                c \in {"tests", "lint"}, i \in {"None", "True", "False"}}
    \cup {ConstructorSetup(e, i) : e \in ManyInputs, i \in {"None", "True", "False"}}
ConfigSpecs == {pytest, <<"a">>, <<"A">>, <<>>, <<"A", " ", "a">>}

\* a manager was built; a construction that raises leaves no manager behind
InitConfig ==
    /\ config \in Setups
    /\ Build(config).ok
    /\ commands = Build(config).val
    /\ call = NoCall
    /\ pending = <<>>
    /\ results = <<>>
    /\ spawned = <<>>
    /\ wfStatus = "new"
    /\ wfError = "none"
    /\ pc = 1
    /\ inflight = "none"
    /\ started = <<>>
    /\ finished = <<>>
    /\ outputs = <<>>
    /\ test_results = <<>>
    /\ runner_calls = <<>>
    /\ PlainExecutor
    /\ IdleFacade
    /\ IdleStore

NextConfig ==
    \/ \E spec \in ConfigSpecs : Resolve(spec)
    \/ \E spec \in ConfigSpecs : ResolveAll(spec)
    \/ Return

SpecConfig == InitConfig /\ [][NextConfig]_vars

(***************************************************************************)
(* An executor made with a working directory and an environment, and its   *)
(* caller, who keeps the mapping it handed over and may change it between  *)
(* two calls.                                                              *)
(***************************************************************************)
Paths == {NoPath, "p"}
EnvNames == {"K"}
EnvValues == {"1", "2"}
EnvArgs == {NoEnv, EnvOf({}), EnvOf({<<"K", "1">>})}

\* TestCommandExecutor(manager, cwd=..., env=...) on a manager with the defaults
InitExecutor ==
    /\ commands = NewManager(TRUE)
    /\ call = NoCall
    /\ pending = <<>>
    /\ results = <<>>
    /\ spawned = <<>>
    /\ IdleWorkflow
    /\ \E cwd \in Paths, env \in EnvArgs :
           /\ executor = NewExecutor(cwd, env)
           /\ caller_env = env
    /\ IdleFacade
    /\ IdleStore

\* the caller assigns to its mapping: env[name] = value
CallerSetsItem(name, value) ==
    /\ Idle
    /\ caller_env.given
    /\ caller_env' = EnvOf({item \in caller_env.items : item[1] # name}
                              \cup {<<name, value>>})
    /\ UNCHANGED <<executor, facadeVars, storeVars>>
    /\ UNCHANGED regVars
    /\ UNCHANGED wfVars

\* the caller deletes from its mapping: del env[name]
CallerDeletesItem(name) ==
    /\ Idle
    /\ caller_env.given
    /\ \E item \in caller_env.items : item[1] = name
    /\ caller_env' = EnvOf({item \in caller_env.items : item[1] # name})
    /\ UNCHANGED <<executor, facadeVars, storeVars>>
    /\ UNCHANGED regVars
    /\ UNCHANGED wfVars

NextExecutor ==
    \/ \E spec \in RunSpecs, timeout \in BOOLEAN : Run(spec, timeout)
    \/ \E spec \in RunSpecs, timeout \in BOOLEAN : RunAll(spec, timeout)
    \/ \E outcome \in ProcessOutcomes(call.timeout) : Execute(outcome)
    \/ Return
    \/ \E name \in EnvNames, value \in EnvValues : CallerSetsItem(name, value)
    \/ \E name \in EnvNames : CallerDeletesItem(name)

SpecExecutor == InitExecutor /\ [][NextExecutor]_vars

(***************************************************************************)
(* The MCP server store (config/mcp.py).  config.toml is taken by the      *)
(* mapping tomllib reads from it, which is the mapping tomli_w wrote: an   *)
(* entry table is the set of its keys with their values.                   *)
(***************************************************************************)
MCPConfigError == "MCPConfigError"
ReservedKeys == {"command", "args", "env", "startup_timeout_sec", "tool_timeout_sec"}

\* _optional_float
optional_float(value) ==
    IF value.kind = "none" THEN NoNumber ELSE Number("float", value.value)

\* variant: empty and zero values are left out like None
to_mapping_Truthy(entry) ==
    [keys |-> {"command", "args"}
              \cup (IF entry.env.given /\ entry.env.items # {} THEN {"env"} ELSE {})
              \cup (IF entry.startup_timeout_sec.value # 0
                    THEN {"startup_timeout_sec"} ELSE {})
              \cup (IF entry.tool_timeout_sec.value # 0
                    THEN {"tool_timeout_sec"} ELSE {})
              \cup {item[1] : item \in entry.extras},
     command |-> entry.command,
     args |-> entry.args,
     env |-> entry.env.items,
     startup_timeout_sec |-> entry.startup_timeout_sec,
     tool_timeout_sec |-> entry.tool_timeout_sec,
     extras |-> entry.extras]

\* McpServerEntry.to_mapping
to_mapping(entry) ==
    [keys |-> {"command", "args"}
              \cup (IF entry.env.given THEN {"env"} ELSE {})
              \cup (IF entry.startup_timeout_sec.kind # "none"
                    THEN {"startup_timeout_sec"} ELSE {})
              \cup (IF entry.tool_timeout_sec.kind # "none"
                    THEN {"tool_timeout_sec"} ELSE {})
              \cup {item[1] : item \in entry.extras},
     command |-> entry.command,
     args |-> entry.args,
     env |-> entry.env.items,
     startup_timeout_sec |-> entry.startup_timeout_sec,
     tool_timeout_sec |-> entry.tool_timeout_sec,
     extras |-> entry.extras]

\* McpServerEntry.from_mapping
from_mapping(raw) ==
    IF "command" \notin raw.keys
    THEN Raise(MCPConfigError)
    ELSE Ok(ServerEntry(
                raw.command,
                IF "args" \in raw.keys THEN raw.args ELSE <<>>,
                IF "env" \in raw.keys THEN EnvOf(raw.env) ELSE NoEnv,
                optional_float(IF "startup_timeout_sec" \in raw.keys
                               THEN raw.startup_timeout_sec ELSE NoNumber),
                optional_float(IF "tool_timeout_sec" \in raw.keys
                               THEN raw.tool_timeout_sec ELSE NoNumber),
                {item \in raw.extras : item[1] \in raw.keys \ ReservedKeys}))

\* _load_raw_config and raw_config.get("mcp_servers"): the server tables of
\* the file, none if the file or the section is missing
raw_servers_of(file) ==
    IF file.exists /\ file.has_section THEN file.mcp_servers ELSE NoServers

\* load_mcp_servers
load_mcp_servers(file) ==
    LET raw_servers == raw_servers_of(file) IN
    IF \E name \in DOMAIN raw_servers : ~from_mapping(raw_servers[name]).ok
    THEN Raise(MCPConfigError)
    ELSE Ok([name \in DOMAIN raw_servers |-> from_mapping(raw_servers[name]).val])

\* save_mcp_server: the file it leaves
save_mcp_server(file, name, entry) ==
    LET raw_servers == raw_servers_of(file) IN
    [exists |-> TRUE, has_section |-> TRUE,
     mcp_servers |-> [n \in DOMAIN raw_servers \cup {name} |->
                          IF n = name THEN to_mapping(entry) ELSE raw_servers[n]]]

\* remove_mcp_server: what it returns and the file it leaves
remove_mcp_server(file, name) ==
    LET raw_servers == raw_servers_of(file)
        removed == name \in DOMAIN raw_servers
        mutable_servers == [n \in DOMAIN raw_servers \ {name} |-> raw_servers[n]]
    IN IF ~(file.exists /\ file.has_section) \/ ~removed
       THEN [removed |-> FALSE, file |-> file]
       ELSE [removed |-> TRUE,
             file |-> [exists |-> TRUE,
                       has_section |-> DOMAIN mutable_servers # {},
                       mcp_servers |-> mutable_servers]]

ServerNames == {"serena", "docs"}
ServerEntries ==
    {ServerEntry("npx", <<>>, NoEnv, NoNumber, NoNumber, {}),
     ServerEntry("npx", <<"-y">>, EnvOf({}), Number("int", 0), NoNumber, {}),
     ServerEntry("uvx", <<"-y", "x">>, EnvOf({<<"K", "1">>}), Number("float", 5),
                 Number("int", 30), {<<"url", "u">>}),
     ServerEntry("uvx", <<>>, NoEnv, NoNumber, Number("float", 0), {}),
     ServerEntry("npx", <<"x">>, EnvOf({<<"K", "2">>}), Number("int", 30),
                 Number("float", 5), {})}

\* the config file is missing and no operation was called
InitStore ==
    /\ commands = NewManager(TRUE)
    /\ call = NoCall
    /\ pending = <<>>
    /\ results = <<>>
    /\ spawned = <<>>
    /\ IdleWorkflow
    /\ PlainExecutor
    /\ IdleFacade
    /\ config_file = NoFile
    /\ store_call = NoStoreCall

\* save_mcp_server(name, entry)
SaveServer(name, entry) ==
    /\ config_file' = save_mcp_server(config_file, name, entry)
    /\ store_call' = [NoStoreCall EXCEPT !.op = "save", !.name = name, !.entry = entry]
    /\ UNCHANGED regVars
    /\ UNCHANGED wfVars
    /\ UNCHANGED <<execVars, facadeVars>>

\* remove_mcp_server(name)
RemoveServer(name) ==
    /\ LET r == remove_mcp_server(config_file, name) IN
           /\ config_file' = r.file
           /\ store_call' = [NoStoreCall EXCEPT !.op = "remove", !.name = name,
                                                !.removed = r.removed]
    /\ UNCHANGED regVars
    /\ UNCHANGED wfVars
    /\ UNCHANGED <<execVars, facadeVars>>

\* load_mcp_servers()
LoadServers ==
    /\ load_mcp_servers(config_file).ok
    /\ store_call' = [NoStoreCall EXCEPT !.op = "load",
                                         !.servers = load_mcp_servers(config_file).val]
    /\ UNCHANGED config_file
    /\ UNCHANGED regVars
    /\ UNCHANGED wfVars
    /\ UNCHANGED <<execVars, facadeVars>>

NextStore ==
    \/ \E name \in ServerNames, entry \in ServerEntries : SaveServer(name, entry)
    \/ \E name \in ServerNames : RemoveServer(name)
    \/ LoadServers

SpecStore == InitStore /\ [][NextStore]_vars

(***************************************************************************)
(* Text of results and prompts.  A text is a sequence of pieces; a fixed    *)
(* phrase of the program is one piece.                                      *)
(***************************************************************************)
\* the characters _shell_escape_many looks for, besides whitespace
\* (the grave accent U+0060 is written as a word: a TLA+ string cannot hold it
\* on its own)
Backtick == "backtick"
ShellSpecial == {Backtick, "'", "\"", "$"}
Whitespace == {" ", "\n", "\n\n", "\t"}
\* the characters shlex.quote does not leave bare
UnsafeChars == Whitespace \cup {"\\", "\r"} \cup ShellSpecial

RECURSIVE Join(_, _)
Join(texts, sep) ==
    IF texts = <<>> THEN <<>>
    ELSE IF Len(texts) = 1 THEN texts[1]
    ELSE texts[1] \o sep \o Join(Tail(texts), sep)

RECURSIVE Replace(_, _, _)
Replace(s, c, by) ==
    IF s = <<>> THEN <<>>
    ELSE (IF Head(s) = c THEN by ELSE <<Head(s)>>) \o Replace(Tail(s), c, by)

RECURSIVE LStrip(_)
LStrip(s) == IF s # <<>> /\ Head(s) \in Whitespace THEN LStrip(Tail(s)) ELSE s
RECURSIVE RStrip(_)
RStrip(s) ==
    IF s # <<>> /\ s[Len(s)] \in Whitespace THEN RStrip(SubSeq(s, 1, Len(s) - 1)) ELSE s
\* str.strip
Strip(s) == RStrip(LStrip(s))

\* shlex.quote
ShlexQuote(s) ==
    IF s = <<>> THEN <<"'", "'">>
    ELSE IF \A i \in 1..Len(s) : s[i] \notin UnsafeChars THEN s
    ELSE <<"'">> \o Replace(s, "'", <<"'", "\"", "'", "\"", "'">>) \o <<"'">>

\* TestCommandResult.command_display
command_display(result) ==
    Join([i \in 1..Len(result.command) |-> ShlexQuote(result.command[i])], <<" ">>)

\* TestCommandResult.format (the process wrote nothing to stdout and stderr)
format(result) ==
    <<"Command: ">> \o command_display(result)
        \o <<"\n", "Exit code: ", ToString(result.returncode), "\n", "Duration: 0.00s">>

\* TestCommandResult.to_prompt_block (the process wrote nothing to stdout and stderr)
to_prompt_block(result) ==
    <<"Command: ">> \o command_display(result)
        \o <<"\n", "Exit code: ", ToString(result.returncode)>>

(***************************************************************************)
(* The TDD workflow.                                                       *)
(***************************************************************************)
exploration_step_name == "Explore codebase"
test_step_name == "Design tests"
initial_test_run_name == "Execute tests (expect failure)"
implementation_step_name == "Implement feature"
final_test_run_name == "Execute tests (expect success)"

\* variant: the implementation step is declared before the initial test run
TDDSteps_Reordered ==
    <<exploration_step_name, test_step_name, implementation_step_name,
      initial_test_run_name, final_test_run_name>>

\* create_tdd_workflow: the steps of the chain, as declared
TDDSteps ==
    <<exploration_step_name, test_step_name, initial_test_run_name,
      implementation_step_name, final_test_run_name>>

\* variant: the content is appended as it is, blank or not
append_context_Untrimmed(prompt, heading, content) ==
    IF content = <<>> THEN prompt
    ELSE prompt \o <<"\n\n", heading, "\n">> \o content

\* _TDDStepFactory._append_context; content = <<>> is a missing or empty content
append_context(prompt, heading, content) ==
    IF content = <<>> THEN prompt
    ELSE LET content_str == Strip(content) IN
         IF content_str = <<>> THEN prompt
         ELSE prompt \o <<"\n\n", heading, "\n">> \o content_str

\* variant: the status line tells whether the run succeeded, whatever was expected
format_test_summary_SuccessOnly(result, expect_success) ==
    format(result) \o <<"\n\n", IF succeeded(result)
                                 THEN "Tests behaved as expected."
                                 ELSE "Test outcome did not match the expectation.">>

\* _TDDStepFactory._format_test_summary (the pictograph that opens each status
\* line is left out)
format_test_summary(result, expect_success) ==
    LET expectation_met == \/ (succeeded(result) /\ expect_success)
                           \/ (~succeeded(result) /\ ~expect_success)
        status_line == IF expectation_met
                       THEN "Tests behaved as expected."
                       ELSE "Test outcome did not match the expectation."
    IN format(result) \o <<"\n\n", status_line>>

(***************************************************************************)
(* The linter workflow.                                                    *)
(***************************************************************************)
lint_step_name == "Run linter"
propose_fixes_step_name == "Propose fixes for linter issues"
default_fix_instructions == "Review the linter findings and propose precise, actionable code edits"

\* create_linter_workflow: the steps of the chain, as declared
LinterSteps == <<lint_step_name, propose_fixes_step_name>>

\* variant: only a value with whitespace in it is quoted
shell_escape_WhitespaceOnly(value) ==
    IF value = <<>> THEN <<"'", "'">>
    ELSE IF \E i \in 1..Len(value) : value[i] \in Whitespace
    THEN <<"'">> \o Replace(value, "'", <<"'", "\\", "'", "'">>) \o <<"'">>
    ELSE value

\* _LinterStepFactory._shell_escape_many, for one value
shell_escape(value) ==
    IF value = <<>> THEN <<"'", "'">>
    ELSE IF \E i \in 1..Len(value) : value[i] \in (Whitespace \cup ShellSpecial)
    THEN <<"'">> \o Replace(value, "'", <<"'", "\\", "'", "'">>) \o <<"'">>
    ELSE value

\* _LinterStepFactory._shell_escape_many
shell_escape_many(values) == [i \in 1..Len(values) |-> shell_escape(values[i])]

\* _LinterStepFactory.run_linter: the command specification
linter_command_spec(cfg) ==
    LET target_spec == Join(shell_escape_many(cfg.targets), <<" ">>) IN
    IF target_spec # <<>> THEN cfg.linter_command \o <<" ">> \o target_spec
    ELSE cfg.linter_command

\* _LinterStepFactory._format_lint_summary (the process wrote nothing)
format_lint_summary(result) ==
    LET expectation == IF result.returncode # 0 THEN "Issues found" ELSE "No issues detected"
    IN Strip(<<"Command: ">> \o command_display(result)
             \o <<"\n", "Exit code: ", ToString(result.returncode), " (", expectation, ")",
                  "\n", "Duration: 0.00s", "\n\n", "Stdout:", "\n", "\n\n", "Stderr:", "\n">>)

(***************************************************************************)
(* The chains at work.  Workflow.run calls the step functions in the       *)
(* declared order; a step function runs until it has called its            *)
(* agent-runner callable or started its process, and ends when that        *)
(* returns or raises.                                                      *)
(***************************************************************************)
RunnerError == "RunnerError"
AgentOutputs == {<<>>, <<" ">>, <<"x">>, <<" ", "x", "\n">>}
RunnerOutcomes == {Ok(text) : text \in AgentOutputs} \cup {Raise(RunnerError)}

TDDConfig(test_command) ==
    [NoConfig EXCEPT !.kind = "tdd",
                     !.exploration_prompt = <<"exploration_prompt">>,
                     !.test_prompt = <<"test_prompt">>,
                     !.implementation_prompt = <<"implementation_prompt">>,
                     !.test_command = test_command]
LinterConfig(linter_command, targets, fix_instructions) ==
    [NoConfig EXCEPT !.kind = "linter", !.linter_command = linter_command,
                     !.targets = targets, !.fix_instructions = fix_instructions]

TestCommands == {pytest, <<"a">>, <<"a", " ", "'", "A", " ", "a", "'">>, <<" ">>}
LinterCommands == {pytest, <<"a", " ", "A">>}
TargetLists ==
    {<<>>, <<<<"a">>>>, <<<<"a">>, <<"a", " ", "A">>>>, <<<<>>>>,
     <<<<"a", "'", "A">>>>, <<<<"a", "\"">>, <<"$", "a">>>>, <<<<>>, <<"a", Backtick>>>>,
     <<<<"a", "\t", "A">>>>, <<<<"a", "\\", "A">>>>, <<<<"a", "\\">>>>}
Configs ==
    {TDDConfig(c) : c \in TestCommands}
    \cup {LinterConfig(c, t, f) : c \in LinterCommands, t \in TargetLists,
                                  f \in {<<>>, <<"fix_instructions">>}}

\* the steps of the chain built from cfg
Steps(cfg) == IF cfg.kind = "tdd" THEN TDDSteps ELSE LinterSteps

\* StepInput.get_step_content: the recorded content of the step, <<>> if none
get_step_content(name) ==
    IF \E i \in 1..Len(outputs) : outputs[i].step = name
    THEN outputs[CHOOSE i \in 1..Len(outputs) : outputs[i].step = name].content
    ELSE <<>>

\* Workflow.run is about to call the step function of the step called name
StepReady(name) ==
    /\ wfStatus = "running"
    /\ inflight = "none"
    /\ pc <= Len(Steps(config))
    /\ Steps(config)[pc] = name

\* Workflow.run: the step function returned content; the chain goes on
StepReturned(name, content) ==
    /\ finished' = Append(finished, name)
    /\ outputs' = Append(outputs, [step |-> name, content |-> content])
    /\ pc' = pc + 1
    /\ inflight' = "none"
    /\ wfStatus' = IF pc + 1 > Len(Steps(config)) THEN "done" ELSE "running"
    /\ UNCHANGED wfError

\* Workflow.run: the step function raised; the exception leaves the chain
StepRaised(err) ==
    /\ wfStatus' = "aborted"
    /\ wfError' = err
    /\ inflight' = "none"
    /\ UNCHANGED <<pc, finished, outputs>>

\* Workflow.run()
WorkflowRun ==
    /\ wfStatus = "new"
    /\ config.kind # "none"
    /\ wfStatus' = "running"
    /\ UNCHANGED <<config, wfError, pc, inflight, started, finished, outputs,
                   test_results, runner_calls>>
    /\ UNCHANGED regVars
    /\ UNCHANGED <<execVars, facadeVars, storeVars>>

\* a step function calls its agent-runner callable with prompt
CallRunner(name, runner, prompt) ==
    /\ StepReady(name)
    /\ started' = Append(started, name)
    /\ inflight' = runner
    /\ runner_calls' = Append(runner_calls,
                              [runner |-> runner, prompt |-> prompt, outcome |-> "pending"])
    /\ UNCHANGED <<config, wfStatus, wfError, pc, finished, outputs, test_results>>
    /\ UNCHANGED regVars
    /\ UNCHANGED <<execVars, facadeVars, storeVars>>

\* the agent-runner callable returned or raised (outcome) and the step
\* function ends with res
RunnerDone(name, runner, outcome, res) ==
    /\ wfStatus = "running"
    /\ inflight = runner
    /\ Steps(config)[pc] = name
    /\ runner_calls' = [runner_calls EXCEPT ![Len(runner_calls)].outcome =
                            IF outcome.ok THEN "returned" ELSE "raised"]
    /\ IF res.ok THEN StepReturned(name, res.val) ELSE StepRaised(res.err)
    /\ UNCHANGED <<config, started, test_results>>
    /\ UNCHANGED regVars
    /\ UNCHANGED <<execVars, facadeVars, storeVars>>

\* a step function calls executor.run(spec): the spec is resolved and the
\* process started, or resolve raises; call holds the executor call of the step
CallExecutor(name, spec) ==
    /\ StepReady(name)
    /\ started' = Append(started, name)
    /\ LET r == resolve(commands, spec) IN
       /\ call' = [NoCall EXCEPT !.op = "run", !.spec = spec,
                                 !.status = IF r.ok THEN "running" ELSE "raised",
                                 !.err = r.err]
       /\ IF r.ok
          THEN /\ pending' = <<r.val>>
               /\ inflight' = "process"
               /\ UNCHANGED <<wfStatus, wfError, pc, finished, outputs>>
          ELSE /\ pending' = <<>>
               /\ StepRaised(r.err)
    /\ UNCHANGED <<config, test_results, runner_calls>>
    /\ UNCHANGED <<commands, results, spawned>>
    /\ UNCHANGED <<execVars, facadeVars, storeVars>>

\* the process of the step ended with outcome and the step function ends with res
ExecutorDone(name, outcome, res) ==
    /\ wfStatus = "running"
    /\ inflight = "process"
    /\ Steps(config)[pc] = name
    /\ spawned' = Append(spawned, [command |-> Head(pending), outcome |-> outcome,
                                   cwd |-> executor.cwd,
                                   env |-> subprocess_env(executor, caller_env)])
    /\ pending' = <<>>
    /\ test_results' = res.test_results
    /\ call' = [call EXCEPT !.status = IF outcome.kind = "exit" THEN "returned" ELSE "raised",
                            !.err = IF outcome.kind = "exit" THEN "none"
                                    ELSE CommandExecutionError]
    /\ IF res.ok THEN StepReturned(name, res.val) ELSE StepRaised(res.err)
    /\ UNCHANGED <<config, started, runner_calls>>
    /\ UNCHANGED <<commands, results>>
    /\ UNCHANGED <<execVars, facadeVars, storeVars>>

\* what a step function that returns its runner's answer ends with
Returned(content, results_list) ==
    [ok |-> TRUE, err |-> "none", val |-> content, test_results |-> results_list]
Raised(err, results_list) ==
    [ok |-> FALSE, err |-> err, val |-> <<>>, test_results |-> results_list]

\* _TDDStepFactory.exploration
exploration_result(r) == IF r.ok THEN Returned(r.val, test_results) ELSE Raised(r.err, test_results)
exploration == CallRunner(exploration_step_name, "exploration_runner", config.exploration_prompt)
exploration_return(r) ==
    RunnerDone(exploration_step_name, "exploration_runner", r, exploration_result(r))

\* variant: the step catches the runner's exception and returns a note
write_tests_result_Caught(r) ==
    IF r.ok THEN Returned(r.val, test_results) ELSE Returned(<<"failed">>, test_results)

\* _TDDStepFactory.write_tests
write_tests_prompt ==
    append_context(config.test_prompt, "Context from exploration:",
                   get_step_content(exploration_step_name))
write_tests_result(r) == IF r.ok THEN Returned(r.val, test_results) ELSE Raised(r.err, test_results)
write_tests == CallRunner(test_step_name, "test_writer_runner", write_tests_prompt)
write_tests_return(r) ==
    RunnerDone(test_step_name, "test_writer_runner", r, write_tests_result(r))

\* variant: the step catches the executor's exception and returns a note
initial_test_run_result_Caught(ex) ==
    IF ex.ok
    THEN Returned(format_test_summary(ex.val[1], FALSE), Append(test_results, ex.val[1]))
    ELSE Returned(<<"Tests could not be run.">>, test_results)

\* variant: the step raises when the run does not fail as expected
initial_test_run_result_Strict(ex) ==
    IF ex.ok /\ ~succeeded(ex.val[1])
    THEN Returned(format_test_summary(ex.val[1], FALSE), Append(test_results, ex.val[1]))
    ELSE Raised(IF ex.ok THEN "UnexpectedOutcome" ELSE ex.err, test_results)

\* _TDDStepFactory.initial_test_run
initial_test_run_result(ex) ==
    IF ex.ok
    THEN Returned(format_test_summary(ex.val[1], FALSE), Append(test_results, ex.val[1]))
    ELSE Raised(ex.err, test_results)
initial_test_run == CallExecutor(initial_test_run_name, config.test_command)
initial_test_run_exit(outcome) ==
    ExecutorDone(initial_test_run_name, outcome,
                 initial_test_run_result(execute(Head(pending), outcome)))

\* variant: the latest test run comes first and the exploration output last
implement_feature_prompt_RunFirst ==
    LET p1 == IF test_results # <<>>
              THEN append_context(config.implementation_prompt,
                                  "Latest test run (expected failure):",
                                  to_prompt_block(test_results[Len(test_results)]))
              ELSE config.implementation_prompt
        p2 == append_context(p1, "Tests to satisfy:", get_step_content(test_step_name))
    IN append_context(p2, "Context from exploration:",
                      get_step_content(exploration_step_name))

\* _TDDStepFactory.implement_feature
implement_feature_prompt ==
    LET p1 == append_context(config.implementation_prompt, "Context from exploration:",
                             get_step_content(exploration_step_name))
        p2 == append_context(p1, "Tests to satisfy:", get_step_content(test_step_name))
    IN IF test_results # <<>>
       THEN append_context(p2, "Latest test run (expected failure):",
                           to_prompt_block(test_results[Len(test_results)]))
       ELSE p2
implement_feature_result(r) ==
    IF r.ok THEN Returned(r.val, test_results) ELSE Raised(r.err, test_results)
implement_feature ==
    CallRunner(implementation_step_name, "implementation_runner", implement_feature_prompt)
implement_feature_return(r) ==
    RunnerDone(implementation_step_name, "implementation_runner", r,
               implement_feature_result(r))

\* _TDDStepFactory.final_test_run
final_test_run_result(ex) ==
    IF ex.ok
    THEN Returned(format_test_summary(ex.val[1], TRUE), Append(test_results, ex.val[1]))
    ELSE Raised(ex.err, test_results)
final_test_run == CallExecutor(final_test_run_name, config.test_command)
final_test_run_exit(outcome) ==
    ExecutorDone(final_test_run_name, outcome,
                 final_test_run_result(execute(Head(pending), outcome)))

\* _LinterStepFactory.run_linter
run_linter_result(ex) ==
    IF ex.ok
    THEN Returned(format_lint_summary(ex.val[1]), Append(test_results, ex.val[1]))
    ELSE Raised(ex.err, test_results)
run_linter == CallExecutor(lint_step_name, linter_command_spec(config))
run_linter_exit(outcome) ==
    ExecutorDone(lint_step_name, outcome, run_linter_result(execute(Head(pending), outcome)))

\* _LinterStepFactory.propose_fixes
propose_fixes_prompt ==
    (IF config.fix_instructions # <<>> THEN config.fix_instructions
     ELSE <<default_fix_instructions>>)
        \o <<"\n\n", "Linter summary (raw output included):", "\n">>
        \o get_step_content(lint_step_name)
propose_fixes_result(r) ==
    IF r.ok THEN Returned(r.val, test_results) ELSE Raised(r.err, test_results)
propose_fixes == CallRunner(propose_fixes_step_name, "fix_runner", propose_fixes_prompt)
propose_fixes_return(r) ==
    RunnerDone(propose_fixes_step_name, "fix_runner", r, propose_fixes_result(r))

\* create_tdd_workflow / create_linter_workflow with no command_manager: a
\* manager with the defaults, an executor on it (cwd = config.project_path,
\* here None; no env), and no result yet
InitWorkflow ==
    /\ commands = NewManager(TRUE)
    /\ call = NoCall
    /\ pending = <<>>
    /\ results = <<>>
    /\ spawned = <<>>
    /\ config \in Configs
    /\ wfStatus = "new"
    /\ wfError = "none"
    /\ pc = 1
    /\ inflight = "none"
    /\ started = <<>>
    /\ finished = <<>>
    /\ outputs = <<>>
    /\ test_results = <<>>
    /\ runner_calls = <<>>
    /\ executor = NewExecutor(NoPath, NoEnv)
    /\ caller_env = NoEnv
    /\ IdleFacade
    /\ IdleStore

NextWorkflow ==
    \/ WorkflowRun
    \/ exploration
    \/ \E r \in RunnerOutcomes : exploration_return(r)
    \/ write_tests
    \/ \E r \in RunnerOutcomes : write_tests_return(r)
    \/ initial_test_run
    \/ \E outcome \in ProcessOutcomes(FALSE) : initial_test_run_exit(outcome)
    \/ implement_feature
    \/ \E r \in RunnerOutcomes : implement_feature_return(r)
    \/ final_test_run
    \/ \E outcome \in ProcessOutcomes(FALSE) : final_test_run_exit(outcome)
    \/ run_linter
    \/ \E outcome \in ProcessOutcomes(FALSE) : run_linter_exit(outcome)
    \/ propose_fixes
    \/ \E r \in RunnerOutcomes : propose_fixes_return(r)

SpecWorkflow == InitWorkflow /\ [][NextWorkflow]_vars

(***************************************************************************)
(* The facade (core.py): the three agent operations and the two workflow   *)
(* operations, with the agent-runner callables the facade wires into the   *)
(* chains.  An agent is taken by its construction and by what its run      *)
(* returns or raises.                                                      *)
(***************************************************************************)
AgentConfigurationError == "AgentConfigurationError: OpenAI API key not configured."
AgentExceptions == {"RuntimeError: boom", "TimeoutError: "}

\* str(exc): the message of the exception, without its type
exception_message(exc) ==
    CASE exc = "RuntimeError: boom" -> "boom"
      [] exc = "TimeoutError: " -> ""
      [] OTHER -> exc
\* AgentExecutionError(message)
AgentExecutionError(message) == "AgentExecutionError: " \o message

LLMProviderNotAvailableError ==
    "LLMProviderNotAvailableError: Azure OpenAI integration is not available in agno."
MissingAzureSettings == "ValueError: Missing Azure OpenAI settings: AZURE_OPENAI_API_KEY"

\* AgentSettings: the provider, OPENAI_API_KEY and AZURE_OPENAI_API_KEY (the
\* endpoint, API version and deployment of Azure OpenAI are taken as set)
ApiKeys == {"None", "", "sk"}
AzureApiKeys == {"None", "az"}
Providers == {"openai", "azure_openai"}
SettingsOf(provider, key, azure_key) ==
    [provider |-> provider, openai_api_key |-> key, azure_openai_api_key |-> azure_key]

\* not settings.openai_api_key: the key is None or the empty string
key_not_configured(s) == s.openai_api_key \in {"None", ""}

\* what agent.run returns: a str, or a run output holding its content
StrResponse(text) == [kind |-> "str", text |-> text]
RunOutput(text) == [kind |-> "content", text |-> text]
AgentResponses == {StrResponse(<<"x">>), RunOutput(<<"x">>), RunOutput(<<>>)}
AgentReturn(response) == [ok |-> TRUE, err |-> "none", val |-> response]
AgentRaise(exc) == [ok |-> FALSE, err |-> exc, val |-> StrResponse(<<>>)]
AgentOutcomes ==
    {AgentReturn(r) : r \in AgentResponses} \cup {AgentRaise(e) : e \in AgentExceptions}

\* _coerce_response_to_string
coerce_response_to_string(result) == result.text

\* run_coding_agent, run_repository_qa_agent, run_serena_coder_agent, from
\* agent.run on: the answer as text, or AgentExecutionError(str(exc))
agent_runner_result(a) ==
    IF a.ok THEN Ok(coerce_response_to_string(a.val))
    ELSE Raise(AgentExecutionError(exception_message(a.err)))

\* run_linter_workflow, the fix_runner lambda:
\* _coerce_response_to_string(agent.run(prompt))
fix_runner_result(a) ==
    IF a.ok THEN Ok(coerce_response_to_string(a.val)) ELSE Raise(a.err)

\* what constructing a model or an agent ends with
Built == [ok |-> TRUE, err |-> "none"]
NotBuilt(exc) == [ok |-> FALSE, err |-> exc]

\* create_model for a provider other than openai: the ways it can end, the
\* integration being installed or not
create_model(s) ==
    {NotBuilt(LLMProviderNotAvailableError)}
        \cup (IF s.azure_openai_api_key \in {"None", ""}
              THEN {NotBuilt(MissingAzureSettings)}
              ELSE {Built})

\* create_coding_agent and create_repository_qa_agent build OpenAIChat for the
\* openai provider and create_model(settings) otherwise;
\* create_serena_coder_agent always builds OpenAIChat
create_agent(s, kind) ==
    IF kind = "serena_coder" \/ s.provider = "openai" THEN {Built} ELSE create_model(s)

\* an agent as constructed, and as its run goes
NewAgent(kind) == [kind |-> kind, run |-> "none", err |-> "none"]
RunningAgent(kind) == [kind |-> kind, run |-> "running", err |-> "none"]
AgentAfter(agent, a) ==
    [agent EXCEPT !.run = IF a.ok THEN "returned" ELSE "raised", !.err = a.err]

AgentOperations == {"run_coding_agent", "run_repository_qa_agent", "run_serena_coder_agent"}
WorkflowOperations == {"run_tdd_workflow", "run_linter_workflow"}

FacadeTestCommands == {pytest, <<"a">>}
FacadeLinterCommands == {<<"a", " ", "A">>}
FacadeTargetLists == {<<>>, <<<<"a">>>>}

\* raise AgentConfigurationError
Refuse(op) ==
    facade' = [NoFacade EXCEPT !.op = op, !.status = "raised",
                               !.err = AgentConfigurationError]
Enter(op) == facade' = [NoFacade EXCEPT !.op = op, !.status = "running"]

\* an agent operation up to its agent.run(prompt)
AgentOperation(op, kind) ==
    /\ facade.op = "none"
    /\ IF key_not_configured(settings)
       THEN /\ Refuse(op)
            /\ UNCHANGED agents
       ELSE \E made \in create_agent(settings, kind) :
                IF made.ok
                THEN /\ Enter(op)
                     /\ agents' = Append(agents, RunningAgent(kind))
                ELSE /\ facade' = [NoFacade EXCEPT !.op = op, !.status = "raised",
                                                   !.err = made.err]
                     /\ UNCHANGED agents
    /\ UNCHANGED settings
    /\ UNCHANGED regVars
    /\ UNCHANGED wfVars
    /\ UNCHANGED <<execVars, storeVars>>

run_coding_agent == AgentOperation("run_coding_agent", "coding")
run_repository_qa_agent == AgentOperation("run_repository_qa_agent", "repository_qa")
run_serena_coder_agent == AgentOperation("run_serena_coder_agent", "serena_coder")

\* an agent operation from the end of agent.run on
agent_operation_return(a) ==
    /\ facade.op \in AgentOperations
    /\ facade.status = "running"
    /\ agents' = [agents EXCEPT ![Len(agents)] = AgentAfter(agents[Len(agents)], a)]
    /\ LET r == agent_runner_result(a) IN
           facade' = [facade EXCEPT !.status = IF r.ok THEN "returned" ELSE "raised",
                                    !.err = r.err, !.val = r.val]
    /\ UNCHANGED settings
    /\ UNCHANGED regVars
    /\ UNCHANGED wfVars
    /\ UNCHANGED <<execVars, storeVars>>

\* run_tdd_workflow up to the first step of workflow.run()
run_tdd_workflow(test_command) ==
    /\ facade.op = "none"
    /\ wfStatus = "new"
    /\ IF key_not_configured(settings)
       THEN /\ Refuse("run_tdd_workflow")
            /\ UNCHANGED <<config, wfStatus>>
       ELSE /\ Enter("run_tdd_workflow")
            /\ config' = TDDConfig(test_command)
            /\ wfStatus' = "running"
    /\ UNCHANGED <<settings, agents>>
    /\ UNCHANGED <<wfError, pc, inflight, started, finished, outputs, test_results,
                   runner_calls>>
    /\ UNCHANGED regVars
    /\ UNCHANGED <<execVars, storeVars>>

\* run_linter_workflow up to the first step of workflow.run()
run_linter_workflow(linter_command, targets, fix_instructions) ==
    /\ facade.op = "none"
    /\ wfStatus = "new"
    /\ IF key_not_configured(settings)
       THEN /\ Refuse("run_linter_workflow")
            /\ UNCHANGED <<config, wfStatus, agents>>
       ELSE \E made \in create_agent(settings, "coding") :
                IF made.ok
                THEN /\ Enter("run_linter_workflow")
                     /\ agents' = Append(agents, NewAgent("coding"))
                     /\ config' = LinterConfig(linter_command, targets, fix_instructions)
                     /\ wfStatus' = "running"
                ELSE /\ facade' = [NoFacade EXCEPT !.op = "run_linter_workflow",
                                                   !.status = "raised", !.err = made.err]
                     /\ UNCHANGED <<config, wfStatus, agents>>
    /\ UNCHANGED settings
    /\ UNCHANGED <<wfError, pc, inflight, started, finished, outputs, test_results,
                   runner_calls>>
    /\ UNCHANGED regVars
    /\ UNCHANGED <<execVars, storeVars>>

\* a step function calls a runner that is an agent operation: the operation
\* checks the key, constructs its agent and calls agent.run
CallAgentRunner(name, runner, prompt, kind) ==
    /\ facade.status = "running"
    /\ StepReady(name)
    /\ started' = Append(started, name)
    /\ \E made \in IF key_not_configured(settings)
                    THEN {NotBuilt(AgentConfigurationError)}
                    ELSE create_agent(settings, kind) :
           IF made.ok
           THEN /\ runner_calls' = Append(runner_calls,
                                          [runner |-> runner, prompt |-> prompt,
                                           outcome |-> "pending"])
                /\ inflight' = runner
                /\ agents' = Append(agents, RunningAgent(kind))
                /\ UNCHANGED <<wfStatus, wfError, pc, finished, outputs>>
           ELSE /\ runner_calls' = Append(runner_calls,
                                          [runner |-> runner, prompt |-> prompt,
                                           outcome |-> "raised"])
                /\ StepRaised(made.err)
                /\ UNCHANGED agents
    /\ UNCHANGED <<config, test_results>>
    /\ UNCHANGED <<settings, facade>>
    /\ UNCHANGED regVars
    /\ UNCHANGED <<execVars, storeVars>>

\* agent.run called by a runner ended (a): the runner ends with r and the
\* step function with res
AgentRunnerDone(name, runner, a, r, res) ==
    /\ facade.status = "running"
    /\ wfStatus = "running"
    /\ inflight = runner
    /\ Steps(config)[pc] = name
    /\ agents' = [agents EXCEPT ![Len(agents)] = AgentAfter(agents[Len(agents)], a)]
    /\ runner_calls' = [runner_calls EXCEPT ![Len(runner_calls)].outcome =
                            IF r.ok THEN "returned" ELSE "raised"]
    /\ IF res.ok THEN StepReturned(name, res.val) ELSE StepRaised(res.err)
    /\ UNCHANGED <<config, started, test_results>>
    /\ UNCHANGED <<settings, facade>>
    /\ UNCHANGED regVars
    /\ UNCHANGED <<execVars, storeVars>>

\* run_tdd_workflow: exploration_runner = lambda prompt, path:
\* run_serena_coder_agent(prompt, project_path=path)
exploration_runner ==
    CallAgentRunner(exploration_step_name, "exploration_runner",
                    config.exploration_prompt, "serena_coder")
exploration_runner_return(a) ==
    AgentRunnerDone(exploration_step_name, "exploration_runner", a,
                    agent_runner_result(a), exploration_result(agent_runner_result(a)))

\* run_tdd_workflow: test_writer_runner = run_coding_agent
test_writer_runner ==
    CallAgentRunner(test_step_name, "test_writer_runner", write_tests_prompt, "coding")
test_writer_runner_return(a) ==
    AgentRunnerDone(test_step_name, "test_writer_runner", a,
                    agent_runner_result(a), write_tests_result(agent_runner_result(a)))

\* run_tdd_workflow: implementation_runner = run_coding_agent
implementation_runner ==
    CallAgentRunner(implementation_step_name, "implementation_runner",
                    implement_feature_prompt, "coding")
implementation_runner_return(a) ==
    AgentRunnerDone(implementation_step_name, "implementation_runner", a,
                    agent_runner_result(a),
                    implement_feature_result(agent_runner_result(a)))

\* run_linter_workflow: fix_runner calls run of the agent the operation made
fix_runner ==
    /\ facade.status = "running"
    /\ StepReady(propose_fixes_step_name)
    /\ started' = Append(started, propose_fixes_step_name)
    /\ runner_calls' = Append(runner_calls,
                              [runner |-> "fix_runner", prompt |-> propose_fixes_prompt,
                               outcome |-> "pending"])
    /\ inflight' = "fix_runner"
    /\ agents' = [agents EXCEPT ![Len(agents)].run = "running"]
    /\ UNCHANGED <<config, wfStatus, wfError, pc, finished, outputs, test_results>>
    /\ UNCHANGED <<settings, facade>>
    /\ UNCHANGED regVars
    /\ UNCHANGED <<execVars, storeVars>>
fix_runner_return(a) ==
    AgentRunnerDone(propose_fixes_step_name, "fix_runner", a,
                    fix_runner_result(a), propose_fixes_result(fix_runner_result(a)))

\* return workflow.run(): the chain ended and its output, or the exception
\* that left it, leaves the operation
workflow_run_return ==
    /\ facade.op \in WorkflowOperations
    /\ facade.status = "running"
    /\ wfStatus \in {"done", "aborted"}
    /\ facade' = [facade EXCEPT !.status = IF wfStatus = "done" THEN "returned"
                                           ELSE "raised",
                                !.err = wfError]
    /\ UNCHANGED <<settings, agents>>
    /\ UNCHANGED regVars
    /\ UNCHANGED wfVars
    /\ UNCHANGED <<execVars, storeVars>>

\* get_agent_settings() with each provider and key; nothing was called yet
InitFacade ==
    /\ commands = NewManager(TRUE)
    /\ call = NoCall
    /\ pending = <<>>
    /\ results = <<>>
    /\ spawned = <<>>
    /\ IdleWorkflow
    /\ PlainExecutor
    /\ settings \in {SettingsOf(p, k, z) : p \in Providers, k \in ApiKeys,
                                            z \in AzureApiKeys}
    /\ facade = NoFacade
    /\ agents = <<>>
    /\ IdleStore

NextFacade ==
    \/ run_coding_agent
    \/ run_repository_qa_agent
    \/ run_serena_coder_agent
    \/ \E a \in AgentOutcomes : agent_operation_return(a)
    \/ \E c \in FacadeTestCommands : run_tdd_workflow(c)
    \/ \E c \in FacadeLinterCommands, t \in FacadeTargetLists,
          f \in {<<>>, <<"fix_instructions">>} : run_linter_workflow(c, t, f)
    \/ exploration_runner
    \/ \E a \in AgentOutcomes : exploration_runner_return(a)
    \/ test_writer_runner
    \/ \E a \in AgentOutcomes : test_writer_runner_return(a)
    \/ initial_test_run
    \/ \E outcome \in ProcessOutcomes(FALSE) : initial_test_run_exit(outcome)
    \/ implementation_runner
    \/ \E a \in AgentOutcomes : implementation_runner_return(a)
    \/ final_test_run
    \/ \E outcome \in ProcessOutcomes(FALSE) : final_test_run_exit(outcome)
    \/ run_linter
    \/ \E outcome \in ProcessOutcomes(FALSE) : run_linter_exit(outcome)
    \/ fix_runner
    \/ \E a \in AgentOutcomes : fix_runner_return(a)
    \/ workflow_run_return

SpecFacade == InitFacade /\ [][NextFacade]_vars

(***************************************************************************)
(* Properties of the executor and the registry, checked under Spec.        *)
(***************************************************************************)
\* the strings of a flat list of strings
StringsOf(items) == [i \in 1..Len(items) |-> items[i].str]
IsFlatList(command) ==
    /\ command.kind = "list"
    /\ command.items # <<>>
    /\ \A i \in 1..Len(command.items) : command.items[i].kind = "str"

\* C5: run_all(spec) executes every vector of the resolved sequence exactly
\* once, in order, without short-circuiting: when every process could be
\* started it returns one result per vector, the i-th carrying the i-th vector
\* and the exit code of the i-th process, whatever the earlier exit codes.
C5_RunAllExecutesEveryVector ==
    (call.op = "run_all" /\ call.status = "returned") =>
        LET seq == resolve_all(commands, call.spec).val IN
        /\ Len(call.val) = Len(seq)
        /\ Len(spawned) = Len(seq)
        /\ \A i \in 1..Len(seq) :
              /\ spawned[i].command = seq[i]
              /\ spawned[i].outcome.kind = "exit"
              /\ call.val[i] = CommandResult(seq[i], spawned[i].outcome.code)

\* a run_all over two vectors returned although the first one exited non-zero
C5_Witness ==
    /\ call.op = "run_all"
    /\ call.status = "returned"
    /\ Len(call.val) = 2
    /\ call.val[1].returncode # 0
    /\ call.val[1].command # call.val[2].command

\* C6: a spawn failure or timeout at the k-th vector aborts the run/run_all
\* call: it raises CommandExecutionError carrying exactly the k-th vector,
\* returns no result (not those of vectors 1..k-1 either) and starts no
\* process after the k-th.
C6_SpawnFailureAbortsCall ==
    (call.op \in {"run", "run_all"}) =>
        \A k \in 1..Len(spawned) :
            spawned[k].outcome.kind # "exit" =>
                /\ k = Len(spawned)
                /\ call.status = "raised"
                /\ call.err = CommandExecutionError
                /\ call.command = spawned[k].command
                /\ call.command = IF call.op = "run"
                                  THEN resolve(commands, call.spec).val
                                  ELSE resolve_all(commands, call.spec).val[k]
                /\ call.val = <<>>
                /\ results = <<>>
                /\ \A i \in 1..(k - 1) : spawned[i].outcome.kind = "exit"

\* run_all failed at its second vector, after a first process that ran
C6_Witness ==
    /\ call.op = "run_all"
    /\ call.status = "raised"
    /\ call.err = CommandExecutionError
    /\ Len(spawned) = 2
    /\ spawned[1].outcome.kind = "exit"
    /\ spawned[2].outcome.kind = "timeout"
    /\ Len(resolve_all(commands, call.spec).val) = 2

\* C7: run(spec) never raises because of the exit code: whatever the code, it
\* returns a result holding that code and the first resolved vector; it raises
\* CommandExecutionError only when the process cannot be started or times out.
C7_RunReturnsEveryExitCode ==
    (call.op = "run" /\ spawned # <<>>) =>
        /\ Len(spawned) = 1
        /\ spawned[1].command = resolve_all(commands, call.spec).val[1]
        /\ spawned[1].outcome.kind = "exit" =>
              /\ call.status = "returned"
              /\ call.val = <<CommandResult(resolve_all(commands, call.spec).val[1],
                                            spawned[1].outcome.code)>>
        /\ (call.status = "raised" /\ call.err = CommandExecutionError) =>
              spawned[1].outcome.kind \in {"oserror", "timeout"}

\* run returned the result of a process that exited non-zero
C7_Witness ==
    /\ call.op = "run"
    /\ call.status = "returned"
    /\ Len(call.val) = 1
    /\ ~succeeded(call.val[1])
    /\ call.val[1].command = resolve(commands, call.spec).val

\* C8 as stated: for every alias name and every non-empty flat list of strings
\* L, after register(name, L) resolve(name) returns the elements of L, in
\* order, as one vector, and resolve_all(name) has length 1.
C8_AsStated ==
    (call.op = "register" /\ IsFlatList(call.input)) =>
        /\ call.status = "returned"
        /\ resolve(commands, call.name) = Ok(StringsOf(call.input.items))
        /\ resolve_all(commands, call.name) = Ok(<<StringsOf(call.input.items)>>)

\* C8 as amended: the same for every non-empty alias name; under the empty
\* name the registration succeeds and is stored the same way, but resolve('')
\* and resolve_all('') raise the empty-specification error.
C8_RegisterResolveRoundTrip ==
    (call.op = "register" /\ IsFlatList(call.input)) =>
        /\ call.status = "returned"
        /\ call.name \in DOMAIN commands
        /\ commands[call.name] = <<StringsOf(call.input.items)>>
        /\ IF call.name # <<>>
           THEN /\ resolve(commands, call.name) = Ok(StringsOf(call.input.items))
                /\ resolve_all(commands, call.name) = Ok(<<StringsOf(call.input.items)>>)
           ELSE /\ resolve(commands, call.name) = Raise(EmptySpec)
                /\ resolve_all(commands, call.name) = Raise(EmptySpec)

\* a two-element list with an element that holds a space was registered under
\* a name that already had another sequence
C8_Witness ==
    /\ call.op = "register"
    /\ call.status = "returned"
    /\ call.name = <<"a">>
    /\ call.input = ListInput(<<StrElem(<<"A", " ", "a">>), StrElem(<<"a">>)>>)
    /\ resolve(commands, call.name).val = <<<<"A", " ", "a">>, <<"a">>>>

\* C9 as stated: for every non-empty spec that is not a registered alias,
\* resolve_all(spec) returns exactly one vector, the shell tokenisation of spec.
C9_AsStated ==
    (call.op = "resolve_all" /\ call.spec # <<>> /\ call.spec \notin DOMAIN commands) =>
        /\ call.status = "returned"
        /\ call.val = <<ShlexSplit(call.spec).tokens>>

\* a quote, a body without quotes or escapes, and the same quote again
QuotedWhole(spec) ==
    /\ Len(spec) >= 3
    /\ spec[1] \in ShlexQuotes
    /\ spec[Len(spec)] = spec[1]
    /\ \A i \in 2..(Len(spec) - 1) : spec[i] \notin (ShlexQuotes \cup ShlexEscape)

\* C9 as amended: for every non-empty spec that is not a registered alias and
\* whose shell tokenisation succeeds with at least one token, resolve_all(spec)
\* returns exactly one vector, that tokenisation, a quoted substring being one
\* token; a whitespace-only spec raises the empty-specification error and a
\* spec the tokeniser rejects (an unclosed quote) raises its ValueError.
C9_LiteralSpecIsTokenised ==
    (call.op = "resolve_all" /\ call.spec # <<>> /\ call.spec \notin DOMAIN commands) =>
        LET sp == ShlexSplit(call.spec) IN
        /\ (sp.ok /\ sp.tokens # <<>>) =>
              /\ call.status = "returned"
              /\ call.val = <<sp.tokens>>
        /\ (sp.ok /\ sp.tokens = <<>>) =>
              /\ call.status = "raised"
              /\ call.err = EmptySpec
              /\ \A i \in 1..Len(call.spec) : call.spec[i] \in ShlexWhitespace
        /\ ~sp.ok => (call.status = "raised" /\ call.err = ShlexError)
        /\ QuotedWhole(call.spec) =>
              /\ call.status = "returned"
              /\ call.val = <<<<SubSeq(call.spec, 2, Len(call.spec) - 1)>>>>

\* a quoted space was resolved into one vector of one token
C9_Witness ==
    /\ call.op = "resolve_all"
    /\ call.status = "returned"
    /\ call.spec = <<"'", " ", "'">>
    /\ call.val = <<<<<<" ">>>>>>

\* a non-empty string of letters only
Letters(s) == s # <<>> /\ \A i \in 1..Len(s) : s[i] \in {"a", "A"}
\* spec is alias, a space, and further text
Extends(spec, alias) ==
    /\ Len(spec) > Len(alias) + 1
    /\ SubSeq(spec, 1, Len(alias)) = alias
    /\ spec[Len(alias) + 1] \in ShlexWhitespace
RestOf(spec, alias) == SubSeq(spec, Len(alias) + 2, Len(spec))

\* C10: alias resolution is exact-match and case-sensitive on the whole spec:
\* resolve_all returns the registered sequence of spec when spec is a registered
\* alias, and otherwise the literal tokenisation of spec with no alias
\* expanded: a spec that differs from an alias only in letter case resolves to
\* itself as a single token, and an alias followed by further arguments
\* resolves to the alias name and the arguments as tokens.
C10_ExactMatchResolution ==
    (call.op = "resolve_all" /\ call.status = "returned") =>
        /\ call.spec \in DOMAIN commands => call.val = commands[call.spec]
        /\ call.spec \notin DOMAIN commands =>
              /\ call.val = <<ShlexSplit(call.spec).tokens>>
              /\ \A alias \in DOMAIN commands :
                    /\ (Fold(alias) = Fold(call.spec) /\ Letters(call.spec)) =>
                          call.val = <<<<call.spec>>>>
                    /\ (Extends(call.spec, alias) /\ Letters(alias)
                            /\ Letters(RestOf(call.spec, alias))) =>
                          call.val = <<<<alias, RestOf(call.spec, alias)>>>>

\* 'A' was resolved literally while the alias 'a' held another sequence
C10_Witness ==
    /\ call.op = "resolve_all"
    /\ call.status = "returned"
    /\ call.spec = <<"A">>
    /\ <<"a">> \in DOMAIN commands
    /\ call.val = <<<<<<"A">>>>>>
    /\ commands[<<"a">>] # call.val

(***************************************************************************)
(* Properties of the workflow chains, checked under SpecWorkflow.          *)
(***************************************************************************)
AgentStepNames ==
    {exploration_step_name, test_step_name, implementation_step_name,
     propose_fixes_step_name}
CommandStepNames == {initial_test_run_name, final_test_run_name, lint_step_name}
\* how many of the steps in names run a command
CommandStepsIn(names) == Cardinality({j \in 1..Len(names) : names[j] \in CommandStepNames})
StatusLines == {"Tests behaved as expected.", "Test outcome did not match the expectation."}

\* C1: a run of the TDD chain that no step aborts executes exactly the five
\* steps 'Explore codebase', 'Design tests', 'Execute tests (expect failure)',
\* 'Implement feature', 'Execute tests (expect success)', each once and in
\* this order; a step starts only after the previous one has finished.
C1_TDDStepsInOrder ==
    config.kind = "tdd" =>
        LET names == <<"Explore codebase", "Design tests",
                       "Execute tests (expect failure)", "Implement feature",
                       "Execute tests (expect success)">>
        IN /\ Len(started) <= Len(names)
           /\ started = SubSeq(names, 1, Len(started))
           /\ Len(finished) <= Len(started)
           /\ finished = SubSeq(started, 1, Len(finished))
           /\ Len(started) <= Len(finished) + 1
           /\ inflight # "none" => Len(started) = Len(finished) + 1
           /\ Len(started) = Len(finished) + 1 => (inflight # "none" \/ wfStatus = "aborted")
           /\ [i \in 1..Len(outputs) |-> outputs[i].step] = finished
           /\ wfStatus = "done" <=> finished = names
           /\ wfStatus = "running" => ENABLED NextWorkflow

\* the TDD chain ran to its end
C1_Witness ==
    /\ config.kind = "tdd"
    /\ wfStatus = "done"
    /\ Len(finished) = 5
    /\ Len(test_results) = 2
    /\ Len(runner_calls) = 3

\* C2: in both workflows, when an agent-runner callable raises during its
\* step the chain aborts at once: no later step is started, the test command
\* is not executed afterwards, and the chain is not re-entered or resumed.
C2_RunnerErrorAbortsChain ==
    \A i \in 1..Len(runner_calls) :
        runner_calls[i].outcome = "raised" =>
            /\ i = Len(runner_calls)
            /\ wfStatus = "aborted"
            /\ wfError = RunnerError
            /\ inflight = "none"
            /\ pending = <<>>
            /\ Len(started) = Len(finished) + 1
            /\ started[Len(started)] \in AgentStepNames
            /\ Len(outputs) = Len(finished)
            /\ Len(spawned) = CommandStepsIn(finished)
            /\ ~ENABLED NextWorkflow

\* the implementation runner raised after the initial test run
C2_Witness ==
    /\ config.kind = "tdd"
    /\ wfStatus = "aborted"
    /\ wfError = RunnerError
    /\ started[Len(started)] = implementation_step_name
    /\ runner_calls[Len(runner_calls)].outcome = "raised"
    /\ Len(spawned) = 1

\* C3: in both workflows, when the executor raises CommandExecutionError in a
\* test-run or lint step the error leaves the step and ends the chain: no later
\* step runs and no partial result is recovered; in the TDD chain a spawn
\* failure in the initial test run means that the implementation step and the
\* final test run never execute.
C3_ExecutorErrorAbortsChain ==
    config.kind # "none" =>
        \A i \in 1..Len(spawned) :
            spawned[i].outcome.kind # "exit" =>
                /\ i = Len(spawned)
                /\ wfStatus = "aborted"
                /\ wfError = CommandExecutionError
                /\ inflight = "none"
                /\ Len(started) = Len(finished) + 1
                /\ started[Len(started)] \in CommandStepNames
                /\ Len(outputs) = Len(finished)
                /\ Len(test_results) = i - 1
                /\ (config.kind = "tdd" /\ i = 1) =>
                      /\ started = <<exploration_step_name, test_step_name,
                                     initial_test_run_name>>
                      /\ Len(runner_calls) = 2
                /\ (config.kind = "linter") => runner_calls = <<>>
                /\ ~ENABLED NextWorkflow

\* the process of the initial test run could not be started
C3_Witness ==
    /\ config.kind = "tdd"
    /\ wfStatus = "aborted"
    /\ wfError = CommandExecutionError
    /\ Len(spawned) = 1
    /\ spawned[1].outcome.kind = "oserror"
    /\ started[Len(started)] = initial_test_run_name

\* C4: a non-zero exit code of the test command never aborts the TDD chain and
\* never raises: whatever the exit codes of the initial and the final run, the
\* step of a process that exited records its result and a summary that differs
\* only in its last line, the chain aborts only on a runner's exception, a
\* process that could not be run or a test command that does not resolve, and
\* otherwise goes on until all five steps are done.
C4_ExitCodeNeverAborts ==
    config.kind = "tdd" =>
        /\ \A i \in 1..Len(spawned) :
              spawned[i].outcome.kind = "exit" =>
                  LET at == IF i = 1 THEN 3 ELSE 5 IN
                  /\ Len(test_results) >= i
                  /\ test_results[i].returncode = spawned[i].outcome.code
                  /\ Len(outputs) >= at
                  /\ outputs[at].step = TDDSteps[at]
                  /\ \E line \in StatusLines :
                        outputs[at].content = format(test_results[i]) \o <<"\n\n", line>>
        /\ wfStatus = "aborted" =>
              \/ /\ wfError = RunnerError
                 /\ runner_calls[Len(runner_calls)].outcome = "raised"
              \/ /\ wfError = CommandExecutionError
                 /\ spawned[Len(spawned)].outcome.kind # "exit"
              \/ /\ wfError \in {EmptySpec, ShlexError}
                 /\ ~resolve(commands, config.test_command).ok
        /\ wfStatus = "running" => ENABLED NextWorkflow
        /\ wfStatus = "done" => (Len(finished) = 5 /\ Len(test_results) = 2)

\* the chain ran to its end although the initial run passed and the final run failed
C4_Witness ==
    /\ config.kind = "tdd"
    /\ wfStatus = "done"
    /\ Len(test_results) = 2
    /\ succeeded(test_results[1])
    /\ ~succeeded(test_results[2])

(***************************************************************************)
(* Further properties of the registry, checked under Spec.                 *)
(***************************************************************************)
\* C11: for every spec on which resolve_all succeeds, resolve(spec) is the
\* first vector of resolve_all(spec); resolve fails exactly when resolve_all
\* fails, with the same error; the later vectors of an alias are dropped by
\* resolve and by the executor's run, which executes the first vector only.
C11_ResolveIsFirstOfResolveAll ==
    /\ call.op = "resolve" =>
          LET every == resolve_all(commands, call.spec) IN
          /\ call.status = "returned" <=> every.ok
          /\ every.ok => call.val = every.val[1]
          /\ ~every.ok => (call.status = "raised" /\ call.err = every.err)
    /\ call.op = "resolve_all" =>
          LET first == resolve(commands, call.spec) IN
          /\ call.status = "returned" <=> first.ok
          /\ first.ok => first.val = call.val[1]
          /\ ~first.ok => first.err = call.err
    /\ call.op = "run" =>
          LET every == resolve_all(commands, call.spec) IN
          /\ (call.status = "raised" /\ spawned = <<>>) =>
                (~every.ok /\ call.err = every.err)
          /\ spawned # <<>> => /\ every.ok
                               /\ Len(spawned) = 1
                               /\ spawned[1].command = every.val[1]
          /\ call.status = "running" => pending = <<every.val[1]>>

\* run on an alias of two vectors executed the first one and ended
C11_Witness ==
    /\ call.op = "run"
    /\ call.status = "returned"
    /\ Len(resolve_all(commands, call.spec).val) = 2
    /\ Len(spawned) = 1
    /\ call.val[1].command = resolve_all(commands, call.spec).val[1]
    /\ call.val[1].command # resolve_all(commands, call.spec).val[2]

\* the vector a list element stands for: the shell tokens of a string, the
\* elements of a nested sequence of strings
VectorOf(element) ==
    IF element.kind = "str" THEN ShlexSplit(element.str).tokens ELSE element.parts

\* a list of strings and nested sequences of strings that is not all strings
IsMixedList(command) ==
    /\ command.kind = "list"
    /\ \A i \in 1..Len(command.items) : command.items[i].kind \in {"str", "seq"}
    /\ \E i \in 1..Len(command.items) : command.items[i].kind = "seq"

\* C12: registering a list that is not all strings (nested sequences and
\* strings) yields one vector per list element, in list order: a nested
\* sequence becomes the vector of its elements, a string element the vector of
\* its shell tokens.
C12_MixedListOneVectorPerElement ==
    (call.op = "register" /\ IsMixedList(call.input)) =>
        LET items == call.input.items IN
        /\ call.status = "returned" =>
              /\ call.name \in DOMAIN commands
              /\ commands[call.name] = [i \in 1..Len(items) |-> VectorOf(items[i])]
        /\ (\A i \in 1..Len(items) :
               /\ items[i].kind = "str" => ShlexSplit(items[i].str).ok
               /\ VectorOf(items[i]) # <<>>) => call.status = "returned"

\* [['a'], 'A a'] was registered as (('a',), ('A', 'a'))
C12_Witness ==
    /\ call.op = "register"
    /\ call.status = "returned"
    /\ call.input = ListInput(<<SeqElem(<<<<"a">>>>), StrElem(<<"A", " ", "a">>)>>)
    /\ commands[call.name] = <<<<(<<"a">>)>>, <<(<<"A">>), (<<"a">>)>>>>

\* C13: resolve('') and resolve_all('') always fail with the
\* empty-specification error, whatever the registry holds, also when the empty
\* string itself is a registered alias (and so do run('') and run_all(''),
\* before any process is started).
C13_EmptySpecAlwaysFails ==
    (call.op \in {"resolve", "resolve_all", "run", "run_all"} /\ call.spec = <<>>) =>
        /\ call.status = "raised"
        /\ call.err = EmptySpec
        /\ call.val = <<>>
        /\ spawned = <<>>

\* resolve_all('') failed although '' is a registered alias
C13_Witness ==
    /\ call.op = "resolve_all"
    /\ call.spec = <<>>
    /\ <<>> \in DOMAIN commands
    /\ call.status = "raised"
    /\ call.err = EmptySpec

\* a string without a character other than whitespace
Blank(s) == \A i \in 1..Len(s) : s[i] \in ShlexWhitespace

\* normalising the input would produce an empty vector: an empty or
\* whitespace-only string, an empty list, an empty nested sequence
WouldBeEmptyVector(command) ==
    \/ command.kind = "str" /\ Blank(command.str)
    \/ command.kind = "list" /\ command.items = <<>>
    \/ /\ command.kind = "list"
       /\ \E i \in 1..Len(command.items) : command.items[i].kind # "str"
       /\ \E i \in 1..Len(command.items) :
             \/ command.items[i].kind = "str" /\ Blank(command.items[i].str)
             \/ command.items[i].kind \in {"seq", "objs"} /\ command.items[i].parts = <<>>

\* an element is neither a string nor an iterable of strings
HasUnsupportedElement(command) ==
    /\ command.kind = "list"
    /\ \E i \in 1..Len(command.items) :
          \/ command.items[i].kind = "num"
          \/ /\ command.items[i].kind = "objs"
             /\ \E j \in 1..Len(command.items[i].parts) :
                   command.items[i].parts[j].kind # "str"

\* C14: register fails with InvalidCommandError (the ValueError or TypeError
\* of normalise) whenever normalisation would produce an empty vector and
\* whenever an element is of an unsupported type, i.e. a value that is not
\* iterable or an iterable holding non-string items.
C14_InvalidInputIsRejected ==
    (call.op = "register"
         /\ (WouldBeEmptyVector(call.input) \/ HasUnsupportedElement(call.input))) =>
        /\ call.status = "raised"
        /\ call.err \in {EmptyCommand, UnsupportedType}

\* the position of the first entry whose input does not normalise, one past
\* the end if there is none
FirstInvalid(entries) ==
    IF \E i \in 1..Len(entries) : ~normalise(entries[i].command).ok
    THEN CHOOSE i \in 1..Len(entries) :
            /\ ~normalise(entries[i].command).ok
            /\ \A j \in 1..(i - 1) : normalise(entries[j].command).ok
    ELSE Len(entries) + 1

\* C15: register_many is not atomic: when the entry at position k fails
\* validation, the entries before k stay registered with their new sequences,
\* the entries from k on are not registered, and every alias that is not among
\* the first k-1 entries keeps what it had before the call.
C15_RegisterManyNotAtomic ==
    [][(call'.op = "register_many" /\ call.op = "none") =>
          LET entries == call'.entries
              k == FirstInvalid(entries)
              stored == {entries[i].name : i \in 1..(k - 1)}
          IN /\ call'.status = "raised" <=> k <= Len(entries)
             /\ k <= Len(entries) => call'.err = normalise(entries[k].command).err
             /\ DOMAIN commands' = DOMAIN commands \cup stored
             /\ \A i \in 1..(k - 1) :
                   commands'[entries[i].name] = normalise(entries[i].command).val
             /\ \A name \in DOMAIN commands' \ stored : commands'[name] = commands[name]
      ]_vars

\* register_many failed at its second entry of three: the first one is
\* stored, the third one is not
C15_Witness ==
    /\ call.op = "register_many"
    /\ call.status = "raised"
    /\ Len(call.entries) = 3
    /\ FirstInvalid(call.entries) = 2
    /\ call.entries[1].name = pytest
    /\ commands[pytest] = <<<<(<<"a">>)>>>>
    /\ call.entries[3].name \notin DOMAIN commands

\* C16: after any sequence of register, register_many, resolve and resolve_all
\* calls, successful or failed, every alias maps to a sequence of at least one
\* vector and every such vector has at least one token, and so has every
\* vector that resolve or resolve_all returns.
C16_NonEmptyVectors ==
    /\ \A alias \in DOMAIN commands :
          /\ Len(commands[alias]) >= 1
          /\ \A i \in 1..Len(commands[alias]) : Len(commands[alias][i]) >= 1
    /\ (call.op = "resolve" /\ call.status = "returned") => Len(call.val) >= 1
    /\ (call.op = "resolve_all" /\ call.status = "returned") =>
          /\ Len(call.val) >= 1
          /\ \A i \in 1..Len(call.val) : Len(call.val[i]) >= 1

\* a list with an empty nested sequence was refused while the alias 'a' held
\* two vectors
C16_Witness ==
    /\ call.op = "register"
    /\ call.status = "raised"
    /\ call.input = ListInput(<<SeqElem(<<<<"a">>>>), SeqElem(<<>>)>>)
    /\ <<"a">> \in DOMAIN commands
    /\ Len(commands[<<"a">>]) = 2

\* C17: resolve_all is idempotent and read-only: a call repeated with the same
\* spec and no register call in between has the same outcome, and neither
\* resolve nor resolve_all changes the alias table.
C17_ResolveAllIdempotentReadOnly ==
    [][/\ (call'.op \in {"resolve", "resolve_all"} /\ call' # call) => commands' = commands
       /\ (call'.op = "resolve_all" /\ call'.prev # NoPrev) =>
             /\ call'.prev.spec = call'.spec
             /\ call'.status = call'.prev.status
             /\ call'.err = call'.prev.err
             /\ call'.val = call'.prev.val
      ]_vars

\* a literal spec of two tokens was resolved twice in a row
C17_Witness ==
    /\ call.op = "resolve_all"
    /\ call.status = "returned"
    /\ call.prev.status = "returned"
    /\ call.spec \notin DOMAIN commands
    /\ call.val = <<ShlexSplit(call.spec).tokens>>
    /\ Len(call.val[1]) = 2

(***************************************************************************)
(* Properties of the managers as built, checked under SpecConfig.          *)
(***************************************************************************)
\* whether the construction asks for the defaults: include_defaults if it is
\* given, else TRUE for the constructor and category = 'tests' for
\* create_manager_from_config
AsksForDefaults(setup) ==
    IF setup.include_defaults # "None" THEN setup.include_defaults = "True"
    ELSE IF setup.kind = "constructor" THEN TRUE
    ELSE setup.category = "tests"

\* the caller's own commands: the mapping given to the constructor, or the
\* section of the chosen category
OwnEntries(setup) ==
    IF setup.kind = "constructor" THEN setup.entries
    ELSE IF setup.category = "tests" THEN setup.tests
    ELSE setup.lint

OwnNames(setup) == {OwnEntries(setup)[i].name : i \in 1..Len(OwnEntries(setup))}

\* the sequence the caller's entry i stands for
OwnSequence(setup, i) ==
    IF setup.kind = "constructor"
    THEN normalise(OwnEntries(setup)[i].command).val
    ELSE OwnEntries(setup)[i].command

\* C18: a registry built with defaults has 'pytest' resolving to
\* ('uv','run','pytest') unless the caller's own commands override it; built
\* with the defaults suppressed it holds the caller's aliases only, so that
\* resolve_all('pytest') is the literal (('pytest',),); and
\* create_manager_from_config includes the default exactly when the category
\* is 'tests', unless include_defaults is given.
C18_DefaultsFollowCategory ==
    config.kind \in {"constructor", "factory"} =>
        LET own == OwnEntries(config) IN
        /\ pytest \in DOMAIN commands <=> (AsksForDefaults(config) \/ pytest \in OwnNames(config))
        /\ (AsksForDefaults(config) /\ pytest \notin OwnNames(config)) =>
              commands[pytest] = <<<< <<"u", "v">>, <<"r", "u", "n">>,
                                      <<"p", "y", "t", "e", "s", "t">> >>>>
        /\ \A i \in 1..Len(own) :
              own[i].name = pytest => commands[pytest] = OwnSequence(config, i)
        /\ ~AsksForDefaults(config) => DOMAIN commands = OwnNames(config)
        /\ (call.op = "resolve_all" /\ call.spec = pytest) =>
              /\ call.status = "returned"
              /\ call.val = IF AsksForDefaults(config) \/ pytest \in OwnNames(config)
                            THEN commands[pytest]
                            ELSE <<<< <<"p", "y", "t", "e", "s", "t">> >>>>

\* a manager made for the category 'lint' with include_defaults not given
\* holds the lint alias and resolves 'pytest' literally
C18_Witness ==
    /\ config.kind = "factory"
    /\ config.category = "lint"
    /\ config.include_defaults = "None"
    /\ config.lint # <<>>
    /\ commands # <<>>
    /\ call.op = "resolve_all"
    /\ call.spec = pytest
    /\ call.val = <<<< <<"p", "y", "t", "e", "s", "t">> >>>>

\* C19 as stated: for every alias of the chosen category, the manager made by
\* create_manager_from_config returns exactly the configured sequence from
\* resolve_all(alias).
C19_AsStated ==
    config.kind = "factory" =>
        \A i \in 1..Len(OwnEntries(config)) :
            resolve_all(commands, OwnEntries(config)[i].name) = Ok(OwnEntries(config)[i].command)

\* C19: registering a command sequence in canonical form stores it unchanged:
\* for every alias of the chosen category the manager made by
\* create_manager_from_config holds exactly the configured sequence, and
\* resolve_all(alias) returns it whenever the alias is not the empty string,
\* for which resolve_all raises the empty-specification error.
C19_CanonicalSequenceIsKept ==
    config.kind = "factory" =>
        LET own == OwnEntries(config) IN
        /\ \A i \in 1..Len(own) :
              /\ own[i].name \in DOMAIN commands
              /\ commands[own[i].name] = own[i].command
              /\ own[i].name # <<>> => resolve_all(commands, own[i].name) = Ok(own[i].command)
              /\ own[i].name = <<>> => resolve_all(commands, own[i].name) = Raise(EmptySpec)
              /\ (call.op = "resolve_all" /\ call.spec = own[i].name /\ call.spec # <<>>) =>
                    (call.status = "returned" /\ call.val = own[i].command)

\* resolve_all gave back a configured sequence of two vectors, one of them
\* with a token that holds a space
C19_Witness ==
    /\ config.kind = "factory"
    /\ config.category = "lint"
    /\ call.op = "resolve_all"
    /\ call.status = "returned"
    /\ call.spec = <<"a">>
    /\ call.val = <<<<(<<"A", " ", "a">>), (<<"a">>)>>, <<(<<"a">>)>>>>
    /\ call.val = config.lint[1].command

(***************************************************************************)
(* Further properties of the workflow chains, checked under SpecWorkflow.  *)
(***************************************************************************)
\* C20: the summary of a test-run step ends with 'behaved as expected'
\* exactly when (exit code = 0 and success is expected) or (exit code # 0 and
\* failure is expected), and with 'did not match the expectation' otherwise;
\* a result succeeded iff its exit code is exactly zero; the initial run
\* expects failure and the final run expects success.
C20_SummaryAnnotation ==
    config.kind = "tdd" =>
        \A i \in 1..Len(outputs) :
            outputs[i].step \in {"Execute tests (expect failure)",
                                 "Execute tests (expect success)"} =>
                LET expect_success == outputs[i].step = "Execute tests (expect success)"
                    result == test_results[IF expect_success THEN 2 ELSE 1]
                    code == spawned[IF expect_success THEN 2 ELSE 1].outcome.code
                    annotation == outputs[i].content[Len(outputs[i].content)]
                    met == (code = 0 /\ expect_success) \/ (code # 0 /\ ~expect_success)
                IN /\ result.returncode = code
                   /\ succeeded(result) <=> code = 0
                   /\ annotation = "Tests behaved as expected." <=> met
                   /\ annotation = "Test outcome did not match the expectation." <=> ~met

\* both runs exited with 0: the initial run did not match its expectation, the
\* final run behaved as expected
C20_Witness ==
    /\ config.kind = "tdd"
    /\ Len(outputs) = 5
    /\ spawned[1].outcome = Exit(0)
    /\ spawned[2].outcome = Exit(0)
    /\ outputs[3].content[Len(outputs[3].content)] = "Test outcome did not match the expectation."
    /\ outputs[5].content[Len(outputs[5].content)] = "Tests behaved as expected."

\* the context section a prompt is augmented with: nothing for a blank content,
\* else a blank line, the heading, a line break and the content without the
\* whitespace around it
IsBlank(content) == \A i \in 1..Len(content) : content[i] \in Whitespace
Trimmed(content) ==
    LET inner == {i \in 1..Len(content) : content[i] \notin Whitespace}
        first == CHOOSE i \in inner : \A j \in inner : i <= j
        last == CHOOSE i \in inner : \A j \in inner : j <= i
    IN SubSeq(content, first, last)
Section(heading, content) ==
    IF IsBlank(content) THEN <<>> ELSE <<"\n\n", heading, "\n">> \o Trimmed(content)

\* C21: the prompt handed to the implementation runner in step 4 is the
\* implementation prompt augmented, in this order, with the exploration
\* output, the test-design output and the compact summary of the latest test
\* run, which is the initial run of step 3 (the only run made by then) and
\* never the final run; the prompt handed to the test-writer runner in step 2
\* is the test prompt augmented with the exploration output only.
C21_PromptsOfTheRunners ==
    config.kind = "tdd" =>
        \A i \in 1..Len(runner_calls) :
            /\ runner_calls[i].runner = "test_writer_runner" =>
                  /\ i = 2
                  /\ runner_calls[i].prompt =
                         config.test_prompt
                             \o Section("Context from exploration:", outputs[1].content)
            /\ runner_calls[i].runner = "implementation_runner" =>
                  /\ i = 3
                  /\ Len(spawned) >= 1
                  /\ inflight = "implementation_runner" =>
                         (Len(spawned) = 1 /\ Len(test_results) = 1)
                  /\ test_results[1].command = spawned[1].command
                  /\ test_results[1].returncode = spawned[1].outcome.code
                  /\ outputs[3].step = initial_test_run_name
                  /\ runner_calls[i].prompt =
                         config.implementation_prompt
                             \o Section("Context from exploration:", outputs[1].content)
                             \o Section("Tests to satisfy:", outputs[2].content)
                             \o <<"\n\n", "Latest test run (expected failure):", "\n",
                                  "Command: ">>
                             \o command_display(test_results[1])
                             \o <<"\n", "Exit code: ", ToString(spawned[1].outcome.code)>>

\* the chain is done, the initial run exited with 1 and the final run with 0:
\* the implementation prompt holds both outputs and the summary of the initial run
C21_Witness ==
    /\ config.kind = "tdd"
    /\ wfStatus = "done"
    /\ spawned[1].outcome = Exit(1)
    /\ spawned[2].outcome = Exit(0)
    /\ runner_calls[2].prompt = <<"test_prompt", "\n\n", "Context from exploration:", "\n", "x">>
    /\ outputs[2].content = <<"x">>
    /\ runner_calls[3].prompt =
           <<"implementation_prompt", "\n\n", "Context from exploration:", "\n", "x",
             "\n\n", "Tests to satisfy:", "\n", "x",
             "\n\n", "Latest test run (expected failure):", "\n",
             "Command: ", "a", "\n", "Exit code: ", "1">>

\* C22: augmenting a prompt with a context section returns the prompt
\* unchanged when the content is missing, empty or whitespace-only; otherwise
\* it returns the prompt, a blank line, the heading, a line break and the
\* trimmed content; the prompt is always a prefix of the result.
C22_ContextSection ==
    config.kind = "tdd" =>
        \A i \in 1..Len(runner_calls), c \in {<<>>} \cup {outputs[k].content : k \in 1..Len(outputs)} :
            LET prompt == runner_calls[i].prompt
                augmented == append_context(prompt, "Tests to satisfy:", c)
            IN /\ IsBlank(c) => augmented = prompt
               /\ ~IsBlank(c) =>
                      /\ augmented = prompt \o <<"\n\n", "Tests to satisfy:", "\n">> \o Trimmed(c)
                      /\ Trimmed(c)[1] \notin Whitespace
                      /\ Trimmed(c)[Len(Trimmed(c))] \notin Whitespace
               /\ Len(augmented) >= Len(prompt)
               /\ SubSeq(augmented, 1, Len(prompt)) = prompt
               /\ (i = 2 /\ c = outputs[1].content) =>
                      runner_calls[i].prompt =
                          append_context(config.test_prompt, "Context from exploration:", c)

\* the exploration runner answered with whitespace only, the test-writer runner
\* with a text that has whitespace around it: the test prompt went out
\* unchanged, and the implementation prompt got the trimmed text
C22_Witness ==
    /\ config.kind = "tdd"
    /\ Len(runner_calls) = 3
    /\ outputs[1].content = <<" ">>
    /\ outputs[2].content = <<" ", "x", "\n">>
    /\ runner_calls[2].prompt = config.test_prompt
    /\ SubSeq(runner_calls[3].prompt, 1, 5) =
           <<"implementation_prompt", "\n\n", "Tests to satisfy:", "\n", "x">>

\* the target holds whitespace or one of the characters ' " $ `
NeedsQuotes(target) ==
    \E i \in 1..Len(target) : target[i] \in {" ", "\t", "\n", "'", "\"", "$", Backtick}

\* the texts, each with a space before it, one after the other
RECURSIVE SpacedOut(_)
SpacedOut(texts) ==
    IF texts = <<>> THEN <<>> ELSE <<" ">> \o Head(texts) \o SpacedOut(Tail(texts))

\* C23: the linter step builds its command specification as the linter
\* command followed by the escaped targets in their configured order, each
\* after a single space (the linter command alone when there are no targets);
\* a target with whitespace or one of ' " $ ` in it is wrapped in single
\* quotes, every other non-empty target is left unquoted.
C23_LinterCommandSpec ==
    (config.kind = "linter" /\ call.op = "run") =>
        LET escaped == shell_escape_many(config.targets) IN
        /\ call.spec = config.linter_command \o SpacedOut(escaped)
        /\ config.targets = <<>> => call.spec = config.linter_command
        /\ Len(escaped) = Len(config.targets)
        /\ \A i \in 1..Len(config.targets) :
               LET target == config.targets[i]
                   e == escaped[i]
               IN /\ NeedsQuotes(target) =>
                         /\ e[1] = "'"
                         /\ e[Len(e)] = "'"
                         /\ Len(e) >= Len(target) + 2
                         /\ (\A k \in 1..Len(target) : target[k] # "'") =>
                                e = <<"'">> \o target \o <<"'">>
                  /\ (~NeedsQuotes(target) /\ target # <<>>) => e = target

\* the linter step ran 'a A' on the targets 'a' and 'a A': the second target
\* is quoted, the first is not
C23_Witness ==
    /\ config.kind = "linter"
    /\ config.linter_command = <<"a", " ", "A">>
    /\ config.targets = <<(<<"a">>), (<<"a", " ", "A">>)>>
    /\ call.op = "run"
    /\ call.status = "returned"
    /\ call.spec = <<"a", " ", "A", " ", "a", " ", "'", "a", " ", "A", "'">>
    /\ spawned[1].command = <<(<<"a">>), (<<"A">>), (<<"a">>), (<<"a", " ", "A">>)>>

\* C28: in the run-linter step the executor resolves a named alias used as the
\* linter command: for every target list, empty or not, when the configured
\* linter command is a registered alias the process that runs is the alias's
\* registered vector and not the alias name taken as a program.
C28_AliasLinterCommandIsResolved ==
    (/\ config.kind = "linter"
     /\ config.linter_command \in DOMAIN commands
     /\ spawned # <<>>) =>
        LET vector == commands[config.linter_command][1]
            ran == spawned[1].command
        IN /\ Len(ran) >= Len(vector)
           /\ SubSeq(ran, 1, Len(vector)) = vector
           /\ ran[1] # config.linter_command

\* C30: escaping round trip in the linter step: for every list of targets and
\* a linter command that is not an alias, the argument vector the executor
\* runs is the linter command's tokens followed by exactly the original
\* targets, one token each, unchanged and in order.
C30_EscapingRoundTrip ==
    (/\ config.kind = "linter"
     /\ config.linter_command \notin DOMAIN commands
     /\ call.op = "run") =>
        /\ call.err # ShlexError
        /\ spawned # <<>> =>
               spawned[1].command = ShlexSplit(config.linter_command).tokens \o config.targets

(***************************************************************************)
(* Further properties of the registry, checked under Spec.                 *)
(***************************************************************************)
\* C29: a register call that fails leaves the alias table exactly as it was
\* before the call: no alias is added or removed, and a sequence registered
\* earlier under the same name is kept and still returned by resolve_all
\* (which, for the empty name, raises as it did before).
C29_FailedRegisterKeepsTable ==
    [][(call.op = "none" /\ call'.op = "register" /\ call'.status = "raised") =>
           /\ DOMAIN commands' = DOMAIN commands
           /\ commands' = commands
           /\ call'.name \in DOMAIN commands =>
                  /\ commands'[call'.name] = commands[call'.name]
                  /\ resolve_all(commands', call'.name) = resolve_all(commands, call'.name)
                  /\ call'.name # <<>> =>
                         resolve_all(commands', call'.name) = Ok(commands[call'.name])]_vars

\* register('a', []) has just failed and the sequence registered under 'a'
\* before it is still there
C29_Witness ==
    /\ call.op = "register"
    /\ call.status = "raised"
    /\ call.err = EmptyCommand
    /\ call.name = <<"a">>
    /\ call.input = ListInput(<<>>)
    /\ <<"a">> \in DOMAIN commands
    /\ commands[<<"a">>] = << <<(<<"A", " ", "a">>), (<<"a">>)>> >>
    /\ resolve_all(commands, <<"a">>) = Ok(<< <<(<<"A", " ", "a">>), (<<"a">>)>> >>)

(***************************************************************************)
(* Properties of an executor made with a working directory and an          *)
(* environment, checked under SpecExecutor.                                *)
(***************************************************************************)
\* C26: the executor's working directory and environment are a snapshot
\* fixed at construction: every process started by run or run_all receives
\* exactly the working directory and the environment contents that were
\* passed to the constructor, whatever the caller did to its mapping since.
C26_ExecutorSnapshot ==
    /\ executor.cwd = executor.passed.cwd
    /\ \A i \in 1..Len(spawned) :
           /\ spawned[i].cwd = executor.passed.cwd
           /\ spawned[i].env = executor.passed.env

(***************************************************************************)
(* Properties of the facade, checked under SpecFacade.                     *)
(***************************************************************************)
\* the credentials an operation's agents are built with: the OpenAI key for
\* the openai provider and for the Serena agent, the provider's key otherwise
OpenAIKeyNeeded(op) ==
    settings.provider = "openai" \/ op \in {"run_serena_coder_agent", "run_tdd_workflow"}
ProviderKeyNeeded(op) ==
    settings.provider # "openai" /\ op # "run_serena_coder_agent"
CredentialMissing(op) ==
    \/ OpenAIKeyNeeded(op) /\ settings.openai_api_key \in {"None", ""}
    \/ ProviderKeyNeeded(op) /\ settings.azure_openai_api_key \in {"None", ""}

\* C24: when a credential the operation needs is missing, every facade
\* operation that was called has raised AgentConfigurationError, and no agent
\* was constructed, no workflow was made or started, no step ran, no runner
\* was called and no command was resolved or executed.
C24_MissingCredentialFailsFast ==
    (facade.op # "none" /\ CredentialMissing(facade.op)) =>
        /\ facade.status = "raised"
        /\ facade.err = AgentConfigurationError
        /\ agents = <<>>
        /\ config = NoConfig
        /\ wfStatus = "new"
        /\ started = <<>>
        /\ runner_calls = <<>>
        /\ call = NoCall
        /\ spawned = <<>>

\* C25: whenever an agent raised in its run, the failure that leaves the
\* runner is AgentExecutionError wrapping the agent's message: an agent
\* operation has raised it, and a workflow operation's chain was ended by it
\* and, once the operation is over, the operation has raised it.
C25_AgentFailureIsWrapped ==
    \A i \in 1..Len(agents) :
        agents[i].run = "raised" =>
            LET wrapped == AgentExecutionError(exception_message(agents[i].err)) IN
            IF facade.op \in AgentOperations
            THEN facade.status = "raised" /\ facade.err = wrapped
            ELSE /\ wfStatus = "aborted"
                 /\ wfError = wrapped
                 /\ facade.status # "returned"
                 /\ facade.status = "raised" => facade.err = wrapped

(***************************************************************************)
(* Properties of the MCP server store, checked under SpecStore.            *)
(***************************************************************************)
\* two numbers, or two absences of a number, that are equal as numbers
SameNumber(x, y) == (x.kind = "none") = (y.kind = "none") /\ x.value = y.value
\* the loaded entry has the command, args, env and timeouts of the saved one
SameEntry(loaded, saved) ==
    /\ loaded.command = saved.command
    /\ loaded.args = saved.args
    /\ loaded.env = saved.env
    /\ SameNumber(loaded.startup_timeout_sec, saved.startup_timeout_sec)
    /\ SameNumber(loaded.tool_timeout_sec, saved.tool_timeout_sec)
\* what load_mcp_servers returns from the file as it is, and as it will be
Loaded == load_mcp_servers(config_file).val
LoadedNext == load_mcp_servers(config_file').val

\* C27: from a missing config file load_mcp_servers returns nothing, and
\* each save and remove changes what it returns by its own name only: after
\* a save the name is there with the command, args, env and timeouts saved,
\* after a remove it is gone, and every other name stays as it was; remove
\* returns True exactly when the name was there, and a remove of a missing
\* name returns False and leaves the file as it was, missing if it was
\* missing.  So after any sequence of saves and removes load_mcp_servers
\* returns exactly the names saved and not removed afterwards, each as last
\* saved.
C27_StoreFollowsSavesAndRemoves ==
    [][/\ load_mcp_servers(config_file).ok
       /\ ~config_file.exists => DOMAIN Loaded = {}
       /\ store_call'.op = "save" =>
              /\ load_mcp_servers(config_file').ok
              /\ DOMAIN LoadedNext = DOMAIN Loaded \cup {store_call'.name}
              /\ SameEntry(LoadedNext[store_call'.name], store_call'.entry)
              /\ \A n \in DOMAIN Loaded \ {store_call'.name} : LoadedNext[n] = Loaded[n]
       /\ store_call'.op = "remove" =>
              /\ load_mcp_servers(config_file').ok
              /\ store_call'.removed = (store_call'.name \in DOMAIN Loaded)
              /\ DOMAIN LoadedNext = DOMAIN Loaded \ {store_call'.name}
              /\ \A n \in DOMAIN LoadedNext : LoadedNext[n] = Loaded[n]
              /\ ~store_call'.removed => config_file' = config_file
       /\ store_call'.op = "load" =>
              /\ store_call'.servers = Loaded
              /\ config_file' = config_file]_vars

\* both names were saved, one of them a second time with other values, the
\* other was removed, and a remove of it again returned False
C27_Witness ==
    /\ store_call.op = "remove"
    /\ ~store_call.removed
    /\ config_file.exists
    /\ DOMAIN Loaded = {"serena"}
    /\ Loaded["serena"].env = EnvOf({})
    /\ Loaded["serena"].startup_timeout_sec = Number("float", 0)

====
